---- MODULE Spec2Model ----
(***************************************************************************)
(* A model of Param's Parameterized core: the Parameter descriptors of a  *)
(* class hierarchy and their slot inheritance, the class-level and         *)
(* instance-level value store, and the watcher dispatcher (immediate,      *)
(* queued and batched delivery of Events).                                 *)
(***************************************************************************)
EXTENDS Integers, Sequences, FiniteSets, TLC

VARIABLES
    defined,    \* the classes whose class statement has run
    declared,   \* class -> (parameter name -> the slots as written in the class body)
    cparams,    \* class -> (parameter name -> the class's own merged Parameter)
    failed,     \* the defaults over which the last class statement raised
    icls,       \* instance -> its class ("none": not created yet)
    ivalues,    \* instance -> (parameter name -> instance-level value)
    heap,       \* object id -> content of a mutable container
    watchers,   \* registered Watchers, in registration order
    pstate,     \* object -> its BATCH_WATCH flag, pending events and pending watchers
    stack,      \* the call stack of the dispatch in progress (top first)
    scopes,     \* the open batch scopes of the user program (innermost first)
    log,        \* the callback invocations of the current top-level operation
    held,       \* history: object -> the value last given to it at its own level
    last,       \* the top-level operation in progress or just completed
    raised,     \* the error the last top-level operation raised ("none" if none)
    scheduled   \* the coroutines handed to the async executor and not yet run

vars == <<defined, declared, cparams, failed, icls, ivalues, heap, watchers,
          pstate, stack, scopes, log, held, last, raised, scheduled>>

(***************************************************************************)
(* Values.  Python's None and Param's Undefined sentinel are kept apart    *)
(* from every number a Parameter can hold.                                 *)
(***************************************************************************)
None == -1
Undefined == -2

MaxNum == 2
Num == 0..MaxNum

NoBounds == <<None, None>>
UndefBounds == <<Undefined, Undefined>>

EmptyFn == [n \in {} |-> 0]

Put(f, k, v) == [n \in DOMAIN f \cup {k} |-> IF n = k THEN v ELSE f[n]]

(***************************************************************************)
(* The class hierarchy: A; B(A); C(A); D(B, C).                            *)
(***************************************************************************)
Classes == {"A", "B", "C", "D"}

Bases == [A |-> <<>>, B |-> <<"A">>, C |-> <<"A">>, D |-> <<"B", "C">>]

MRO == [A |-> <<"A">>, B |-> <<"B", "A">>, C |-> <<"C", "A">>,
        D |-> <<"D", "B", "C", "A">>]

Range(s) == {s[i] : i \in 1..Len(s)}

(***************************************************************************)
(* Parameter slots and their inheritance at class creation.                *)
(***************************************************************************)
\* instantiate is 1 (True), 0 (False) or Undefined.
Slots == {"default", "bounds", "instantiate"}

\* Parameter._slot_defaults: no bounds, instantiate=False; Number's default
\* is 0.
SlotDefault(slot) == IF slot = "bounds" THEN NoBounds ELSE 0

\* (fault) None is taken for the "not specified" sentinel, as before 2.0.
IsUndefinedOrNone(slot, v) ==
    IF slot = "bounds" THEN v = UndefBounds \/ v = NoBounds
    ELSE v = Undefined \/ v = None

IsUndefined(slot, v) == IF slot = "bounds" THEN v = UndefBounds ELSE v = Undefined

\* The value of `slot` of the Parameter `name` that class k holds itself;
\* the class being created (c) holds the slots of its class body (raw).
OwnSlot(c, k, name, slot, raw) ==
    IF k = c THEN raw[slot]
    ELSE IF name \in DOMAIN cparams[k] THEN cparams[k][name][slot]
    ELSE IF slot = "bounds" THEN UndefBounds ELSE Undefined

\* (fault) an unspecified slot takes the Parameter type's own default and
\* never looks at the ancestors.
InheritSlotNoAncestors(c, name, slot, raw, i) ==
    IF ~IsUndefined(slot, raw[slot]) THEN raw[slot] ELSE SlotDefault(slot)

RECURSIVE InheritSlot(_, _, _, _, _)
InheritSlot(c, name, slot, raw, i) ==
    IF i > Len(MRO[c]) THEN SlotDefault(slot)
    ELSE LET v == OwnSlot(c, MRO[c][i], name, slot, raw)
         IN  IF ~IsUndefined(slot, v) THEN v
             ELSE InheritSlot(c, name, slot, raw, i + 1)

\* allow_None is forced to True by an explicit default of None and is
\* otherwise inherited like any other slot (False when nobody set it).
RECURSIVE InheritAllowNone(_, _, _, _)
InheritAllowNone(c, name, raw, i) ==
    IF i > Len(MRO[c]) THEN FALSE
    ELSE LET k == MRO[c][i]
         IN  IF k = c
             THEN IF raw["default"] = None THEN TRUE
                  ELSE InheritAllowNone(c, name, raw, i + 1)
             ELSE IF name \in DOMAIN cparams[k] THEN cparams[k][name].allow_None
             ELSE InheritAllowNone(c, name, raw, i + 1)

ParamInheritance(c, name, raw) ==
    [default    |-> InheritSlot(c, name, "default", raw, 1),
     bounds     |-> InheritSlot(c, name, "bounds", raw, 1),
     instantiate |-> InheritSlot(c, name, "instantiate", raw, 1),
     allow_None |-> InheritAllowNone(c, name, raw, 1),
     owner      |-> c]

(***************************************************************************)
(* Validation of a candidate value against a merged Parameter.             *)
(***************************************************************************)
\* (fault) only the lower bound is checked.
ValidateLowerOnly(p, v) == p.bounds[1] = None \/ v >= p.bounds[1]

ValidateBounds(p, v) ==
    /\ (p.bounds[1] = None \/ v >= p.bounds[1])
    /\ (p.bounds[2] = None \/ v <= p.bounds[2])

\* (fault) the bounds are not checked.
ValidateNoBounds(p, v) == IF v = None THEN p.allow_None ELSE TRUE

Validate(p, v) ==
    IF v = None THEN p.allow_None ELSE ValidateBounds(p, v)

(***************************************************************************)
(* Class creation.                                                         *)
(***************************************************************************)
\* History: the value x has for class c according to what each class of
\* its MRO (from position i on) was last given; 0 when none was given any.
RECURSIVE HeldFrom(_, _)
HeldFrom(c, i) ==
    IF i > Len(MRO[c]) THEN 0
    ELSE IF held[MRO[c][i]] # Undefined THEN held[MRO[c][i]]
    ELSE HeldFrom(c, i + 1)

RawDefaults == {Undefined, None} \cup (1..MaxNum)

RawBounds == {UndefBounds, NoBounds, <<0, 1>>, <<1, MaxNum>>}

\* Parameter(default=d, bounds=b, instantiate=i) as written in a class body.
Decl(d, b, i) == [default |-> d, bounds |-> b, instantiate |-> i]

RawDecls == {Decl(d, b, Undefined) : d \in RawDefaults, b \in RawBounds}

ClassBodies == {EmptyFn} \cup {[n \in {"x"} |-> r] : r \in RawDecls}

\* The parameters of the body whose default, once the slots are inherited,
\* is not a value the Parameter allows.
InvalidDefaults(c, body) ==
    {m \in DOMAIN body : LET p == ParamInheritance(c, m, body[m])
                         IN  ~Validate(p, p.default)}

\* (fault) the default of a merged Parameter is not validated.
DefaultsCheckedNone(c, body) == {}

\* What the validation at the end of class creation finds.
DefaultsChecked(c, body) == InvalidDefaults(c, body)

\* The class statement: the Parameters of the body inherit their unset
\* slots; a default that fails validation after that makes the statement
\* raise, and no class is created.
DefineClass(c, body) ==
    /\ c \notin defined
    /\ Range(Bases[c]) \subseteq defined
    /\ stack = <<>>
    /\ IF DefaultsChecked(c, body) # {}
       THEN /\ failed' =
                   {[cls |-> c, name |-> n,
                     inherited |-> body[n].default = Undefined] :
                        n \in DefaultsChecked(c, body)}
            /\ UNCHANGED <<defined, declared, cparams, held>>
       ELSE /\ defined' = defined \cup {c}
            /\ declared' = [declared EXCEPT ![c] = body]
            /\ cparams' = [cparams EXCEPT
                     ![c] = [n \in DOMAIN body |-> ParamInheritance(c, n, body[n])]]
            /\ held' = [held EXCEPT ![c] =
                  IF "x" \notin DOMAIN body THEN Undefined
                  ELSE IF body["x"].default # Undefined THEN body["x"].default
                  ELSE HeldFrom(c, 2)]
            /\ failed' = {}
    /\ UNCHANGED <<scheduled, icls, ivalues, heap, watchers, pstate, stack, scopes, log,
                   last, raised>>

Instances == {"p1", "p2", "p3"}

Objs == Classes \cup Instances

(***************************************************************************)
(* The value store: class-level and instance-level reads.                  *)
(***************************************************************************)
\* The nearest class of c's MRO (from position i on) that holds its own
\* Parameter `name`; "none" when no class of the MRO declares it.
RECURSIVE OwnerFrom(_, _, _)
OwnerFrom(c, name, i) ==
    IF i > Len(MRO[c]) THEN "none"
    ELSE IF name \in DOMAIN cparams[MRO[c][i]] THEN MRO[c][i]
    ELSE OwnerFrom(c, name, i + 1)

get_param_descriptor(c, name) == OwnerFrom(c, name, 1)

\* The parameter names of class c.
ParamNames(c) == UNION {DOMAIN cparams[k] : k \in Range(MRO[c])}

HasParam(c, name) == get_param_descriptor(c, name) # "none"

ParamOf(c, name) == cparams[get_param_descriptor(c, name)][name]

\* Parameter.__get__(None, cls): the default of the nearest descriptor.
ClassGet(c, name) == ParamOf(c, name).default

\* (fault) the instance-level value is ignored.
InstanceGetClassOnly(p, name) == ClassGet(icls[p], name)

\* Parameter.__get__(obj, cls): the instance-level value if there is one,
\* else the default of the descriptor found through the instance's class.
InstanceGet(p, name) ==
    IF name \in DOMAIN ivalues[p] THEN ivalues[p][name]
    ELSE ClassGet(icls[p], name)

IsInstance(o) == o \in Instances

ClassOf(o) == IF IsInstance(o) THEN icls[o] ELSE o

Get(o, name) == IF IsInstance(o) THEN InstanceGet(o, name) ELSE ClassGet(o, name)

Exists(o) == IF IsInstance(o) THEN icls[o] # "none" ELSE o \in defined

(***************************************************************************)
(* Watchers and Events.                                                    *)
(***************************************************************************)
Event(o, name, old, new) == [obj |-> o, name |-> name, old |-> old, new |-> new]

\* (fault) every set counts as a change.
ChangedAlways(ev) == TRUE

\* Comparator.is_equal on the old and new value of an Event.
Changed(ev) == ev.old # ev.new

\* (fault) a class-level set finds no watchers.
WatchersOfInstance(o, name) ==
    IF o \in Instances
    THEN SelectSeq(watchers, LAMBDA w : w.obj = o /\ w.name = name)
    ELSE <<>>

\* (fault) an instance also finds the watchers registered on its class.
WatchersOfClassToo(o, name) ==
    SelectSeq(watchers, LAMBDA w : (w.obj = o \/ w.obj = ClassOf(o)) /\ w.name = name)

\* The watchers registered on object o for the value of `name`.
WatchersOf(o, name) ==
    SelectSeq(watchers, LAMBDA w : w.obj = o /\ w.name = name)

\* (fault) precedence is ignored: registration order is kept.
InsertAtEnd(w, s) == s \o <<w>>

\* sorted(watchers, key=lambda w: w.precedence): a stable insertion sort.
RECURSIVE InsertByPrecedence(_, _)
InsertByPrecedence(w, s) ==
    IF s = <<>> THEN <<w>>
    ELSE IF w.precedence < Head(s).precedence THEN <<w>> \o s
    ELSE <<Head(s)>> \o InsertByPrecedence(w, Tail(s))

RECURSIVE SortByPrecedence(_)
SortByPrecedence(s) ==
    IF s = <<>> THEN <<>>
    ELSE InsertByPrecedence(s[Len(s)], SortByPrecedence(SubSeq(s, 1, Len(s) - 1)))

(***************************************************************************)
(* Parameter.__set__ and the dispatch it starts.  The call stack holds     *)
(* the calls still to be made, the innermost first.                        *)
(***************************************************************************)
Top == Head(stack)

Rest == Tail(stack)

Running == stack # <<>>

SetFrame(o, name, v) == [op |-> "set", obj |-> o, name |-> name, val |-> v]

\* The store of a validated value: on the instance, or (obj is None in
\* the code) on the class, which first gets its own copy of an inherited
\* Parameter.
\* (fault) the value lands in a store that all instances share.
StoreInstanceShared(p, name, v) == [q \in Instances |-> Put(ivalues[q], name, v)]

StoreInstance(p, name, v) == [ivalues EXCEPT ![p] = Put(ivalues[p], name, v)]

StoreClass(c, name, v) ==
    [cparams EXCEPT ![c] = Put(cparams[c], name,
        [ParamOf(c, name) EXCEPT !.default = v, !.owner = c])]

\* An exception leaves every call in progress; the top-level operation
\* that made them ends with it.
Unwind(s) == <<[op |-> "done"]>>

CallFrames(ws, ev) ==
    [i \in 1..Len(ws) |-> [op |-> "call_watcher", w |-> ws[i], ev |-> ev]]

\* The parameters declared with constant=True and with readonly=True.
ConstantNames == {"k"}

ReadonlyNames == {"r"}

\* The constant slot of the Parameter that o uses for `name`: that of the
\* instance's own Parameter object if it has one, else the declared one.
IsConstant(o, name) ==
    IF IsInstance(o) /\ name \in DOMAIN pstate[o].params
    THEN pstate[o].params[name].constant
    ELSE name \in ConstantNames

\* A set of `name` on o is refused: the parameter is readonly, or it is
\* constant and o is an instance whose initialization is over.
Refused(o, name) ==
    \/ name \in ReadonlyNames
    \/ IsConstant(o, name) /\ IsInstance(o) /\ pstate[o].initialized

\* Parameter.__set__: validate, store, then hand the Event to each watcher
\* in precedence order; a failed validation raises before anything is stored,
\* and so does a set of a readonly or constant parameter.
StepSet ==
    /\ Running /\ Top.op = "set"
    /\ LET o == Top.obj
           name == Top.name
           v == Top.val
           old == Get(o, name)
           ws == SortByPrecedence(WatchersOf(o, name))
       IN  IF ~Validate(ParamOf(ClassOf(o), name), v)
           THEN /\ raised' = "ValueError"
                /\ stack' = Unwind(Rest)
                /\ UNCHANGED <<ivalues, cparams, held>>
           ELSE IF Refused(o, name)
           THEN /\ raised' = "TypeError"
                /\ stack' = Unwind(Rest)
                /\ UNCHANGED <<ivalues, cparams, held>>
           ELSE /\ raised' = raised
                /\ held' = IF name = "x" THEN [held EXCEPT ![o] = v] ELSE held
                /\ IF IsInstance(o)
                   THEN /\ ivalues' = StoreInstance(o, name, v)
                        /\ UNCHANGED cparams
                   ELSE /\ cparams' = StoreClass(o, name, v)
                        /\ UNCHANGED ivalues
                /\ stack' = IF ws = <<>> THEN Rest
                            ELSE CallFrames(ws, Event(o, name, old, v))
                                 \o <<[op |-> "end_set", obj |-> o]>> \o Rest
    /\ UNCHANGED <<scheduled, defined, declared, failed, icls, heap, watchers, pstate,
                   scopes, log, last>>

\* (fault) a batch scope is never seen: every Event is delivered at once.
BatchingNever(o) == FALSE

\* obj.param._BATCH_WATCH: Events raised on o are being accumulated.
Batching(o) == pstate[o].BATCH_WATCH

\* (fault) a trigger is treated like any other set.
TriggeringNever(o) == FALSE

\* obj.param.trigger is in progress on o.
Triggering(o) == pstate[o].TRIGGER

\* (fault) a watcher stays eligible after it was unregistered.
RegisteredAlways(w) == TRUE

\* The watcher w is among those registered.
Registered(w) == \E i \in 1..Len(watchers) : watchers[i] = w

\* ParametersNamespace._call_watcher: nothing for a watcher unregistered in
\* the meantime; drop the Event for an onlychanged watcher when nothing
\* changed, queue it while batching, else run it.
StepCallWatcher ==
    /\ Running /\ Top.op = "call_watcher"
    /\ LET w == Top.w
           ev == Top.ev
           st == pstate[ev.obj]
       IN  IF ~Registered(w) \/ (w.onlychanged /\ ~Changed(ev) /\ ~Triggering(ev.obj))
           THEN /\ stack' = Rest
                /\ UNCHANGED pstate
           ELSE IF Batching(ev.obj)
           THEN /\ stack' = Rest
                /\ pstate' = [pstate EXCEPT ![ev.obj] =
                     [st EXCEPT !.events = Append(@, ev),
                                !.watchers =
                                    IF \E i \in 1..Len(@) : @[i].id = w.id
                                    THEN @ ELSE Append(@, w)]]
           ELSE /\ stack' = <<[op |-> "execute", w |-> w, evs |-> <<ev>>]>> \o Rest
                /\ UNCHANGED pstate
    /\ UNCHANGED <<scheduled, held, defined, declared, cparams, failed, icls, ivalues, heap,
                   watchers, scopes, log, last, raised>>

\* The instance whose parameter t (allow_refs=True) is given references.
RefObj == "p2"

\* A reference: a Parameter of another object (kind "param"), a function
\* bound to it (kind "bind": the value plus 1) or a reactive expression on
\* it (kind "rx": the value times 2).
Ref(kind, o, name) == [kind |-> kind, obj |-> o, name |-> name]

\* The current value of a reference.
ResolveRef(r) ==
    LET v == Get(r.obj, r.name)
    IN  IF r.kind = "param" THEN v
        ELSE IF r.kind = "bind" THEN v + 1
        ELSE v * 2

\* (fault) the parameter keeps the value it had when the reference changes.
SyncValueKept(r) == Get(RefObj, "t")

\* The value the parameter is given when its reference has changed.
SyncValue(r) == ResolveRef(r)

\* The object a value of the sub-object parameter n refers to.
InstanceAt == <<"p1", "p2", "p3">>

\* The instance whose method depends on 'n.a'.
Owner == "p1"

\* The largest value the mutually consistent pair a, b takes.
MaxMutual == 3

\* Two conversions a program keeps a and b consistent with: Flip is its
\* own inverse, Clamp has none.
Flip(v) == MaxMutual - v

Clamp(v) == IF v > 1 THEN 1 ELSE v

\* What the callback of a watcher does when it is invoked with `evs`.
CallbackBody(w, evs) ==
    IF w.fn = "set_b"
    THEN <<SetFrame(w.obj, "b", evs[Len(evs)].new)>>
    ELSE IF w.fn = "set_a"
    THEN <<SetFrame(w.obj, "a", evs[Len(evs)].new)>>
    ELSE IF w.fn = "flip_b"
    THEN <<SetFrame(w.obj, "b", Flip(evs[Len(evs)].new))>>
    ELSE IF w.fn = "flip_a"
    THEN <<SetFrame(w.obj, "a", Flip(evs[Len(evs)].new))>>
    ELSE IF w.fn = "clamp_b"
    THEN <<SetFrame(w.obj, "b", Clamp(evs[Len(evs)].new))>>
    ELSE IF w.fn = "cb"
    THEN <<SetFrame(Owner, "b", Get(InstanceAt[Get(Owner, "n")], "a"))>>
    ELSE IF w.fn = "sync"
    THEN <<SetFrame(RefObj, "t", SyncValue(pstate[RefObj].refs["t"]))>>
    ELSE IF w.fn = "see"
    THEN <<SetFrame(w.obj, "b", Get(w.obj, "e"))>>
    ELSE IF w.fn = "unwatch"
    THEN <<[op |-> "unwatch"]>>
    ELSE IF w.fn = "raise"
    THEN <<[op |-> "raise", w |-> w]>>
    ELSE IF w.fn = "rebind"
    THEN <<[op |-> "rebind", w |-> w, old |-> evs[1].old, new |-> evs[Len(evs)].new]>>
    ELSE <<>>

LogEntry(kind, w, evs) == [k |-> kind, w |-> w.id, evs |-> evs]

\* (fault) every callback runs as if its watcher were queued.
BatchDuringAlways(w, saved) == TRUE

\* _batch_call_watchers(obj, enable=watcher.queued, run=False): while the
\* callback of w runs, Events are accumulated iff w is queued or they
\* already were.
BatchDuring(w, saved) == w.queued \/ saved

\* The callbacks declared with async def.
AsyncFns == {"fetch"}

IsAsync(w) == w.fn \in AsyncFns

\* The call of an async callback with its Events: a coroutine, not yet run.
Coroutine(w, evs) == [w |-> w, evs |-> evs]

\* (fault) the dispatcher hands the coroutine over twice.
SubmitTwice(q, co) == Append(Append(q, co), co)

\* async_executor(coroutine): the event loop is given the coroutine to run
\* when it next has control; the call returns at once.
Submit(q, co) == Append(q, co)

\* ParametersNamespace._execute_watcher inside
\* _batch_call_watchers(obj, enable=watcher.queued, run=False): a
\* synchronous callback is called, the call of an asynchronous one is handed
\* to the async executor.
StepExecute ==
    /\ Running /\ Top.op = "execute"
    /\ LET w == Top.w
           o == w.obj
           saved == pstate[o].BATCH_WATCH
       IN  IF ~Registered(w)
           THEN /\ stack' = Rest
                /\ UNCHANGED <<pstate, log, scheduled>>
           ELSE IF IsAsync(w)
           THEN /\ scheduled' = Submit(scheduled, Coroutine(w, Top.evs))
                /\ log' = Append(log, LogEntry("schedule", w, Top.evs))
                /\ stack' = Rest
                /\ UNCHANGED pstate
           ELSE /\ pstate' = [pstate EXCEPT ![o].BATCH_WATCH = BatchDuring(w, saved)]
                /\ log' = Append(log, LogEntry("begin", w, Top.evs))
                /\ stack' = CallbackBody(w, Top.evs)
                       \o <<[op |-> "return", w |-> w, saved |-> saved]>> \o Rest
                /\ UNCHANGED scheduled
    /\ UNCHANGED <<held, defined, declared, cparams, failed, icls, ivalues, heap,
                   watchers, scopes, last, raised>>

\* The callback returns and the scope around it restores BATCH_WATCH.
StepReturn ==
    /\ Running /\ Top.op = "return"
    /\ pstate' = [pstate EXCEPT ![Top.w.obj].BATCH_WATCH = Top.saved]
    /\ log' = Append(log, LogEntry("end", Top.w, <<>>))
    /\ stack' = Rest
    /\ UNCHANGED <<scheduled, held, defined, declared, cparams, failed, icls, ivalues, heap,
                   watchers, scopes, last, raised>>

\* The tail of Parameter.__set__: outside a batch, run what was queued.
StepEndSet ==
    /\ Running /\ Top.op = "end_set"
    /\ stack' = IF Batching(Top.obj) THEN Rest
                ELSE <<[op |-> "batch_call", obj |-> Top.obj]>> \o Rest
    /\ UNCHANGED <<scheduled, held, defined, declared, cparams, failed, icls, ivalues, heap,
                   watchers, pstate, scopes, log, last, raised>>

\* The Events queued for one parameter, coalesced into a single Event that
\* carries the first old value and the last new value.
EventsFor(events, name) == SelectSeq(events, LAMBDA e : e.name = name)

Coalesce(events, name) ==
    LET es == EventsFor(events, name)
    IN  Event(es[1].obj, name, es[1].old, es[Len(es)].new)

ExecFrames(ws, events) ==
    [i \in 1..Len(ws) |->
        [op |-> "execute", w |-> ws[i], evs |-> <<Coalesce(events, ws[i].name)>>]]

\* An onlychanged watcher whose coalesced Event shows no net change.
NoNetChange(w, events) == w.onlychanged /\ ~Changed(Coalesce(events, w.name))

\* ParametersNamespace._batch_call_watchers: while Events are pending, take
\* them and the pending watchers, and run the watchers in precedence order.
\* A watcher with no net change may be left out.
StepBatchCall ==
    /\ Running /\ Top.op = "batch_call"
    /\ LET o == Top.obj
           st == pstate[o]
       IN  IF st.events = <<>>
           THEN /\ stack' = Rest
                /\ UNCHANGED pstate
           ELSE /\ pstate' = [pstate EXCEPT ![o].events = <<>>, ![o].watchers = <<>>]
                /\ \E drop \in BOOLEAN :
                     LET ws == SelectSeq(SortByPrecedence(st.watchers),
                                   LAMBDA w : ~(drop /\ NoNetChange(w, st.events)
                                                /\ ~Triggering(o)))
                     IN  stack' = ExecFrames(ws, st.events) \o stack
    /\ UNCHANGED <<scheduled, held, defined, declared, cparams, failed, icls, ivalues, heap,
                   watchers, scopes, log, last, raised>>

\* The top-level operation has returned (or raised) to the user program.
Completed == stack = <<[op |-> "done"]>>

StepDone ==
    /\ Running /\ Top.op = "done"
    /\ stack' = Rest
    /\ raised' = "none"
    /\ IF scopes = <<>>
       THEN log' = <<>> /\ last' = [op |-> "none", failed |-> raised # "none"]
       ELSE UNCHANGED <<log, last>>
    /\ UNCHANGED <<scheduled, held, defined, declared, cparams, failed, icls, ivalues, heap,
                   watchers, pstate, scopes>>

Step ==
    \/ StepSet
    \/ StepCallWatcher
    \/ StepExecute
    \/ StepReturn
    \/ StepEndSet
    \/ StepBatchCall
    \/ StepDone

(***************************************************************************)
(* The user program: the operations made while no dispatch is running.     *)
(***************************************************************************)
\* The parameters whose values are mutable containers (references into
\* the heap); every other parameter holds a number or None.
Mutable == {"m"}

RECURSIVE SeqOfSet(_)
SeqOfSet(S) ==
    IF S = {} THEN <<>>
    ELSE LET n == CHOOSE n \in S : TRUE IN <<n>> \o SeqOfSet(S \ {n})

IndexOf(s, n) == CHOOSE i \in 1..Len(s) : s[i] = n

\* (fault) instantiate=True is ignored: no instance gets a copy.
InstantiatedNamesNone(c) == {}

\* The parameters of class c declared with instantiate=True.
InstantiatedNames(c) == {n \in ParamNames(c) : ParamOf(c, n).instantiate = 1}

\* Parameterized.__init__: a new instance; it gets its own deep copy of the
\* default of every parameter declared with instantiate=True and nothing for
\* the others.
Instantiate(p, c) ==
    /\ ~Running
    /\ icls[p] = "none"
    /\ c \in defined
    /\ icls' = [icls EXCEPT ![p] = c]
    /\ LET ns == InstantiatedNames(c)
           ms == SeqOfSet(ns \cap Mutable)
       IN  /\ heap' = heap \o [i \in 1..Len(ms) |-> heap[ClassGet(c, ms[i])]]
           /\ ivalues' = [ivalues EXCEPT ![p] =
                 [n \in ns |-> IF n \in Mutable THEN Len(heap) + IndexOf(ms, n)
                               ELSE ClassGet(c, n)]]
    /\ UNCHANGED <<scheduled, held, defined, declared, cparams, failed, watchers, pstate,
                   stack, scopes, log, last, raised>>

\* L = []: the program creates a new, empty list.
NewList ==
    /\ ~Running
    /\ heap' = Append(heap, 0)
    /\ UNCHANGED <<scheduled, held, defined, declared, cparams, failed, icls, ivalues,
                   watchers, pstate, stack, scopes, log, last, raised>>

\* p.m.append(item): the container read from p is changed in place (its
\* content is the number of items appended); no set is involved.
Mutate(p) ==
    /\ ~Running
    /\ icls[p] # "none"
    /\ HasParam(icls[p], "m")
    /\ heap' = [heap EXCEPT ![InstanceGet(p, "m")] = @ + 1]
    /\ UNCHANGED <<scheduled, held, defined, declared, cparams, failed, icls, ivalues,
                   watchers, pstate, stack, scopes, log, last, raised>>

\* The parameters declared as param.Event(); their value is 0 (False) or
\* 1 (True).
EventNames == {"e"}

\* Event.__set__ ends by putting the value back to False, without an Event.
ResetFrames(o, name) ==
    IF name \in EventNames THEN <<[op |-> "reset_event", obj |-> o, name |-> name]>>
    ELSE <<>>

\* The value of each parameter as read on o.
Snapshot(o) == [n \in ParamNames(ClassOf(o)) |-> Get(o, n)]

\* obj.name = v (an instance) or Cls.name = v (a class).
SetAttr(o, name, v) ==
    /\ ~Running
    /\ Exists(o)
    /\ HasParam(ClassOf(o), name)
    /\ name \notin DOMAIN pstate[o].refs
    /\ stack' = <<SetFrame(o, name, v)>> \o ResetFrames(o, name) \o <<[op |-> "done"]>>
    /\ last' = IF scopes = <<>>
               THEN [op |-> "set", obj |-> o, name |-> name, val |-> v,
                     pre |-> Get(o, name), before |-> Snapshot(o),
                     after_failure |-> last.failed]
               ELSE [last EXCEPT !.sets = Append(@, <<name, v>>)]
    /\ UNCHANGED <<scheduled, held, defined, declared, cparams, failed, icls, ivalues, heap,
                   watchers, pstate, scopes, log, raised>>

\* obj.param.watch(fn, [name], onlychanged, queued, precedence), or the same
\* on a class: a new Watcher at the end of the registration order.
NextId(ws) ==
    IF ws = <<>> THEN 1
    ELSE 1 + (CHOOSE m \in {ws[i].id : i \in 1..Len(ws)} :
                \A i \in 1..Len(ws) : ws[i].id <= m)

Watcher(o, name, onlychanged, queued, precedence, fn) ==
    [id |-> NextId(watchers), obj |-> o, name |-> name,
     onlychanged |-> onlychanged, queued |-> queued,
     precedence |-> precedence, fn |-> fn]

\* (fault) no instance counts as being initialized.
InitializingNever(o) == FALSE

\* o is an instance whose Parameterized.__init__ is not over.
Initializing(o) == IsInstance(o) /\ ~pstate[o].initialized

\* An operation that is unsafe during initialization raises.
RaiseUnsafe(o, op) ==
    /\ raised' = "RuntimeError"
    /\ stack' = <<[op |-> "done"]>>
    /\ last' = [op |-> op, obj |-> o, failed |-> FALSE]

Watch(o, name, onlychanged, queued, precedence, fn) ==
    /\ ~Running
    /\ Exists(o)
    /\ HasParam(ClassOf(o), name)
    /\ IF Initializing(o)
       THEN /\ RaiseUnsafe(o, "watch")
            /\ UNCHANGED watchers
       ELSE /\ watchers' = Append(watchers,
                          Watcher(o, name, onlychanged, queued, precedence, fn))
            /\ UNCHANGED <<stack, last, raised>>
    /\ UNCHANGED <<scheduled, held, defined, declared, cparams, failed, icls, ivalues, heap,
                   pstate, scopes, log>>

\* obj.param.objects(instance=True): the instance gets its own copy of each
\* Parameter object that it does not have yet.
ParamObjects(o) ==
    /\ ~Running
    /\ Exists(o) /\ IsInstance(o)
    /\ IF Initializing(o)
       THEN /\ RaiseUnsafe(o, "objects")
            /\ UNCHANGED pstate
       ELSE /\ pstate' = [pstate EXCEPT ![o].params =
                            [n \in ParamNames(ClassOf(o)) |->
                                [constant |-> IsConstant(o, n)]]]
            /\ stack' = <<[op |-> "done"]>>
            /\ last' = [op |-> "objects", obj |-> o, failed |-> FALSE]
            /\ UNCHANGED raised
    /\ UNCHANGED <<scheduled, held, defined, declared, cparams, failed, icls, ivalues, heap,
                   watchers, scopes, log>>

\* obj.param.force_new_dynamic_value(name) for a parameter whose value is
\* not dynamic: the value stays.
ForceNewDynamicValue(o, name) ==
    /\ ~Running
    /\ Exists(o)
    /\ HasParam(ClassOf(o), name)
    /\ stack' = <<[op |-> "done"]>>
    /\ last' = [op |-> "force", obj |-> o, failed |-> FALSE]
    /\ UNCHANGED <<scheduled, held, defined, declared, cparams, failed, icls, ivalues, heap,
                   watchers, pstate, scopes, log, raised>>

\* with batch_call_watchers(o): -- entering the scope.
BatchEnter(o) ==
    /\ ~Running
    /\ Exists(o)
    /\ scopes' = <<[kind |-> "batch", obj |-> o, saved |-> pstate[o].BATCH_WATCH]>>
                  \o scopes
    /\ pstate' = [pstate EXCEPT ![o].BATCH_WATCH = TRUE]
    /\ last' = IF scopes = <<>>
               THEN [op |-> "batch", obj |-> o, before |-> Snapshot(o),
                     sets |-> <<>>, failed |-> FALSE]
               ELSE last
    /\ UNCHANGED <<scheduled, held, defined, declared, cparams, failed, icls, ivalues, heap,
                   watchers, stack, log, raised>>

\* (fault) every exit from a batch dispatches, an inner one too.
OutermostAlways(saved) == TRUE

\* The batch that ends is the outermost one on its object: Events were not
\* being accumulated when it began.
Outermost(saved) == ~saved

\* Leaving the innermost batch_call_watchers scope: BATCH_WATCH is restored
\* and, unless an enclosing scope is still accumulating, what was
\* accumulated is dispatched.
BatchExit ==
    /\ ~Running
    /\ scopes # <<>>
    /\ Head(scopes).kind = "batch"
    /\ LET sc == Head(scopes)
       IN  /\ pstate' = [pstate EXCEPT ![sc.obj].BATCH_WATCH = sc.saved]
           /\ stack' = IF Outermost(sc.saved)
                       THEN <<[op |-> "batch_call", obj |-> sc.obj], [op |-> "done"]>>
                       ELSE <<[op |-> "done"]>>
    /\ scopes' = Tail(scopes)
    /\ UNCHANGED <<scheduled, held, defined, declared, cparams, failed, icls, ivalues, heap,
                   watchers, log, last, raised>>

\* obj.param.trigger(name): the parameter is set to the value it has (an
\* Event parameter to True), as a batch of its own and with the onlychanged
\* test switched off; what was pending before is put aside and put back
\* afterwards.
Trigger(o, name) ==
    /\ ~Running
    /\ Exists(o)
    /\ HasParam(ClassOf(o), name)
    /\ IF Initializing(o)
       THEN /\ RaiseUnsafe(o, "trigger")
            /\ UNCHANGED pstate
       ELSE /\ pstate' = [pstate EXCEPT ![o] = [@ EXCEPT !.BATCH_WATCH = TRUE,
                                                        !.TRIGGER = TRUE,
                                                        !.events = <<>>,
                                                        !.watchers = <<>>]]
            /\ stack' = <<SetFrame(o, name, IF name \in EventNames THEN 1
                                             ELSE Get(o, name)),
                          [op |-> "end_update", obj |-> o,
                           saved |-> pstate[o].BATCH_WATCH]>>
                        \o ResetFrames(o, name)
                        \o <<[op |-> "end_trigger", obj |-> o,
                              events |-> pstate[o].events,
                              watchers |-> pstate[o].watchers],
                             [op |-> "done"]>>
            /\ last' = IF scopes = <<>>
                       THEN [op |-> "trigger", obj |-> o, name |-> name,
                             before |-> Snapshot(o), failed |-> FALSE]
                       ELSE last
            /\ UNCHANGED raised
    /\ UNCHANGED <<scheduled, held, defined, declared, cparams, failed, icls, ivalues, heap,
                   watchers, scopes, log>>

\* The batch around the set ends: BATCH_WATCH is restored and, outside any
\* other batch, the accumulated Events are dispatched.
StepEndUpdate ==
    /\ Running /\ Top.op = "end_update"
    /\ pstate' = [pstate EXCEPT ![Top.obj].BATCH_WATCH = Top.saved]
    /\ stack' = IF Outermost(Top.saved)
                THEN <<[op |-> "batch_call", obj |-> Top.obj]>> \o Rest
                ELSE Rest
    /\ UNCHANGED <<scheduled, held, defined, declared, cparams, failed, icls, ivalues, heap,
                   watchers, scopes, log, last, raised>>

\* The end of trigger: the onlychanged test is back and what had been put
\* aside is pending again.
StepEndTrigger ==
    /\ Running /\ Top.op = "end_trigger"
    /\ pstate' = [pstate EXCEPT ![Top.obj] =
                    [@ EXCEPT !.TRIGGER = FALSE,
                              !.events = @ \o Top.events,
                              !.watchers = @ \o Top.watchers]]
    /\ stack' = Rest
    /\ UNCHANGED <<scheduled, held, defined, declared, cparams, failed, icls, ivalues, heap,
                   watchers, scopes, log, last, raised>>

\* obj.param.update(a=va, b=vb): the sets are made as a batch of their own,
\* which ends like any other batch.
Update(o, va, vb) ==
    /\ ~Running
    /\ Exists(o)
    /\ HasParam(ClassOf(o), "a") /\ HasParam(ClassOf(o), "b")
    /\ pstate' = [pstate EXCEPT ![o].BATCH_WATCH = TRUE]
    /\ stack' = <<SetFrame(o, "a", va), SetFrame(o, "b", vb),
                  [op |-> "end_update", obj |-> o, saved |-> pstate[o].BATCH_WATCH],
                  [op |-> "done"]>>
    /\ last' = IF scopes = <<>>
               THEN [op |-> "update", obj |-> o, before |-> Snapshot(o),
                     sets |-> <<<<"a", va>>, <<"b", vb>>>>, failed |-> FALSE]
               ELSE [last EXCEPT !.sets = @ \o <<<<"a", va>>, <<"b", vb>>>>]
    /\ UNCHANGED <<scheduled, held, defined, declared, cparams, failed, icls, ivalues, heap,
                   watchers, scopes, log, raised>>

\* (fault) the Event parameter keeps the value it was given.
RestingKept(v) == v

\* The value an Event parameter is put back to: False.
Resting(v) == 0

\* Event._reset_event: the value goes back to False; no Event is raised.
StepResetEvent ==
    /\ Running /\ Top.op = "reset_event"
    /\ IF IsInstance(Top.obj)
       THEN /\ ivalues' = StoreInstance(Top.obj, Top.name, Resting(Get(Top.obj, Top.name)))
            /\ UNCHANGED cparams
       ELSE /\ cparams' = StoreClass(Top.obj, Top.name, Resting(Get(Top.obj, Top.name)))
            /\ UNCHANGED ivalues
    /\ stack' = Rest
    /\ UNCHANGED <<scheduled, held, defined, declared, failed, icls, heap, watchers,
                   pstate, scopes, log, last, raised>>

\* The watcher that invokes the method depending on 'n.a' when a changes
\* on the object o; internal watchers have a negative precedence.
DepWatcher(ws, o, queued) ==
    [id |-> NextId(ws), obj |-> o, name |-> "a", onlychanged |-> TRUE,
     queued |-> queued, precedence |-> -1, fn |-> "cb"]

\* The watcher on the root of the path 'n.a', which rebinds the dependency
\* when n is given another object.
RootWatcher(ws, o, queued) ==
    [id |-> NextId(ws), obj |-> o, name |-> "n", onlychanged |-> TRUE,
     queued |-> queued, precedence |-> -1, fn |-> "rebind"]

\* Parameterized.__init__ of a class with a method declared
\* @param.depends('n.a', watch=True): the instance as in Instantiate, and
\* the dependency resolved against the object n holds now.
InstantiateDepends(p, c, queued) ==
    /\ ~Running
    /\ icls[p] = "none"
    /\ c \in defined
    /\ HasParam(c, "n")
    /\ icls' = [icls EXCEPT ![p] = c]
    /\ LET ns == InstantiatedNames(c)
           ms == SeqOfSet(ns \cap Mutable)
       IN  /\ heap' = heap \o [i \in 1..Len(ms) |-> heap[ClassGet(c, ms[i])]]
           /\ ivalues' = [ivalues EXCEPT ![p] =
                 [n \in ns |-> IF n \in Mutable THEN Len(heap) + IndexOf(ms, n)
                               ELSE ClassGet(c, n)]]
    /\ LET root == RootWatcher(watchers, p, queued)
       IN  watchers' = Append(Append(watchers, root),
                 DepWatcher(Append(watchers, root), InstanceAt[ClassGet(c, "n")],
                            queued))
    /\ UNCHANGED <<scheduled, held, defined, declared, cparams, failed, pstate,
                   stack, scopes, log, last, raised>>

\* (fault) the watchers on the object n held before are left in place.
RemoveDepsNone(ws, old) == ws

\* The dependency watchers on the object n held before are unregistered.
RemoveDeps(ws, old) == SelectSeq(ws, LAMBDA w : ~(w.fn = "cb" /\ w.obj = old))

\* (fault) every reassignment of n counts as a change of the dependency.
ValueChangedAlways(old, new) == TRUE

\* The value of the dependency 'n.a' differs between the object n held and
\* the object n holds now.
ValueChanged(old, new) == Get(old, "a") # Get(new, "a")

\* n was given another object: the watchers on the old object go, the new
\* object gets one, and the method is invoked if a differs between the two.
StepRebind ==
    /\ Running /\ Top.op = "rebind"
    /\ LET old == InstanceAt[Top.old]
           new == InstanceAt[Top.new]
           kept == RemoveDeps(watchers, old)
           dep == DepWatcher(kept, new, Top.w.queued)
       IN  /\ watchers' = Append(kept, dep)
           /\ stack' = IF ValueChanged(old, new)
                       THEN <<[op |-> "execute", w |-> dep,
                               evs |-> <<Event(new, "a", Get(old, "a"),
                                               Get(new, "a"))>>]>> \o Rest
                       ELSE Rest
    /\ UNCHANGED <<scheduled, held, defined, declared, cparams, failed, icls, ivalues, heap,
                   pstate, scopes, log, last, raised>>

\* The log entries of the unregistration of the watchers in ws.
Unwatched(ws) == [i \in 1..Len(ws) |-> LogEntry("unwatch", ws[i], <<>>)]

\* obj.param.unwatch(w) in the user program: w is no longer among the
\* registered watchers.
Unwatch(w) ==
    /\ ~Running
    /\ Registered(w)
    /\ watchers' = SelectSeq(watchers, LAMBDA x : x # w)
    /\ log' = IF scopes = <<>> THEN log ELSE log \o Unwatched(<<w>>)
    /\ UNCHANGED <<scheduled, held, defined, declared, cparams, failed, icls, ivalues, heap,
                   pstate, stack, scopes, last, raised>>

\* obj.param.unwatch inside a callback: the callback unregisters the
\* watchers whose callback is "victim".
StepUnwatch ==
    /\ Running /\ Top.op = "unwatch"
    /\ watchers' = SelectSeq(watchers, LAMBDA x : x.fn # "victim")
    /\ log' = log \o Unwatched(SelectSeq(watchers, LAMBDA x : x.fn = "victim"))
    /\ stack' = Rest
    /\ UNCHANGED <<scheduled, held, defined, declared, cparams, failed, icls, ivalues, heap,
                   pstate, scopes, last, raised>>

\* (fault) an exception in a callback ends the whole operation at once.
AfterRaiseUnwind(rest) == Unwind(rest)

\* What remains to be done when a callback has raised: everything that
\* was to be done after the callback.
AfterRaise(rest) == rest

\* A callback raises: the exception is kept for the end of the operation,
\* the callback is over and the dispatch goes on.
StepRaise ==
    /\ Running /\ Top.op = "raise"
    /\ raised' = "CallbackError"
    /\ log' = Append(log, LogEntry("raise", Top.w, <<>>))
    /\ stack' = AfterRaise(Rest)
    /\ UNCHANGED <<scheduled, held, defined, declared, cparams, failed, icls, ivalues, heap,
                   watchers, pstate, scopes, last>>

\* q without its i-th element.
Without(q, i) == SubSeq(q, 1, i - 1) \o SubSeq(q, i + 1, Len(q))

\* The event loop completes one of the scheduled coroutines, in no fixed
\* order, once the user program has given it control: Downloader.fetch
\* stores what it fetched for the new value of the Event.
RunTask ==
    /\ ~Running
    /\ scopes = <<>>
    /\ \E i \in 1..Len(scheduled) :
          LET co == scheduled[i]
          IN  /\ stack' = <<SetFrame(co.w.obj, "b", co.evs[Len(co.evs)].new),
                            [op |-> "done"]>>
              /\ last' = [op |-> "task", obj |-> co.w.obj, name |-> "b",
                          val |-> co.evs[Len(co.evs)].new, pre |-> Get(co.w.obj, "b"),
                          before |-> Snapshot(co.w.obj), after_failure |-> last.failed]
              /\ scheduled' = Without(scheduled, i)
    /\ UNCHANGED <<held, defined, declared, cparams, failed, icls, ivalues, heap,
                   watchers, pstate, scopes, log, raised>>

\* The start of Parameterized.__init__: the instance exists as in
\* Instantiate, but its initialization is not over yet.
BeginInit(p, c) ==
    /\ ~Running
    /\ icls[p] = "none"
    /\ c \in defined
    /\ icls' = [icls EXCEPT ![p] = c]
    /\ LET ns == InstantiatedNames(c)
           ms == SeqOfSet(ns \cap Mutable)
       IN  /\ heap' = heap \o [i \in 1..Len(ms) |-> heap[ClassGet(c, ms[i])]]
           /\ ivalues' = [ivalues EXCEPT ![p] =
                 [n \in ns |-> IF n \in Mutable THEN Len(heap) + IndexOf(ms, n)
                               ELSE ClassGet(c, n)]]
    /\ pstate' = [pstate EXCEPT ![p].initialized = FALSE]
    /\ UNCHANGED <<scheduled, held, defined, declared, cparams, failed, watchers,
                   stack, scopes, log, last, raised>>

\* The end of Parameterized.__init__: the instance is initialized.
EndInit(p) ==
    /\ ~Running
    /\ icls[p] # "none"
    /\ ~pstate[p].initialized
    /\ scopes = <<>>
    /\ pstate' = [pstate EXCEPT ![p].initialized = TRUE]
    /\ UNCHANGED <<scheduled, held, defined, declared, cparams, failed, icls, ivalues, heap,
                   watchers, stack, scopes, log, last, raised>>

\* with edit_constant(o): -- entering the scope.  Every parameter of o gets
\* constant=False on the instance's own Parameter object; what it was is
\* kept for the exit.
EditEnter(o) ==
    /\ ~Running
    /\ Exists(o) /\ IsInstance(o)
    /\ scopes' = <<[kind |-> "edit", obj |-> o,
                    saved |-> [n \in ParamNames(ClassOf(o)) |-> IsConstant(o, n)]]>>
                  \o scopes
    /\ pstate' = [pstate EXCEPT ![o].params =
                    [n \in ParamNames(ClassOf(o)) |-> [constant |-> FALSE]]]
    /\ last' = IF scopes = <<>>
               THEN [op |-> "edit", obj |-> o, before |-> Snapshot(o),
                     sets |-> <<>>, failed |-> FALSE]
               ELSE last
    /\ UNCHANGED <<scheduled, held, defined, declared, cparams, failed, icls, ivalues, heap,
                   watchers, stack, log, raised>>

\* (fault) the constant slots are left as the scope set them.
RestoreConstantsNone(params, saved) == params

\* The constant slots get the values they had when the scope was entered.
RestoreConstants(params, saved) == [n \in DOMAIN saved |-> [constant |-> saved[n]]]

\* with edit_constant(o): -- leaving the scope.
EditExit ==
    /\ ~Running
    /\ scopes # <<>>
    /\ Head(scopes).kind = "edit"
    /\ LET sc == Head(scopes)
       IN  pstate' = [pstate EXCEPT ![sc.obj].params = RestoreConstants(@, sc.saved)]
    /\ scopes' = Tail(scopes)
    /\ stack' = <<[op |-> "done"]>>
    /\ UNCHANGED <<scheduled, held, defined, declared, cparams, failed, icls, ivalues, heap,
                   watchers, log, last, raised>>

\* The watchers that keep a parameter in step with its reference.
SyncWatchers(ws) == SelectSeq(ws, LAMBDA w : w.fn = "sync")

NoSyncWatchers(ws) == SelectSeq(ws, LAMBDA w : w.fn # "sync")

\* obj.t = reference, t declared with allow_refs=True: the reference is
\* kept, a watcher on what it depends on replaces the one of the reference
\* held before, and t is set to the reference's current value.
SetRef(r, queued) ==
    /\ ~Running
    /\ Exists(RefObj) /\ HasParam(ClassOf(RefObj), "t")
    /\ Exists(r.obj) /\ HasParam(ClassOf(r.obj), r.name)
    /\ pstate' = [pstate EXCEPT ![RefObj].refs = Put(@, "t", r)]
    /\ LET ws == NoSyncWatchers(watchers)
       IN  watchers' = Append(ws, [id |-> NextId(ws), obj |-> r.obj,
                                   name |-> r.name, onlychanged |-> TRUE,
                                   queued |-> queued, precedence |-> -1,
                                   fn |-> "sync"])
    /\ stack' = <<SetFrame(RefObj, "t", ResolveRef(r)), [op |-> "done"]>>
    /\ last' = [op |-> "setref", obj |-> RefObj, name |-> "t",
                pre |-> Get(RefObj, "t"), failed |-> FALSE]
    /\ UNCHANGED <<scheduled, held, defined, declared, cparams, failed, icls, ivalues, heap,
                   scopes, log, raised>>

\* obj.t = v, a plain value, while t holds a reference: the reference and
\* its watcher go and t is set to v.
SetOverRef(v) ==
    /\ ~Running
    /\ Exists(RefObj)
    /\ "t" \in DOMAIN pstate[RefObj].refs
    /\ pstate' = [pstate EXCEPT ![RefObj].refs = EmptyFn]
    /\ watchers' = NoSyncWatchers(watchers)
    /\ stack' = <<SetFrame(RefObj, "t", v), [op |-> "done"]>>
    /\ last' = [op |-> "set", obj |-> RefObj, name |-> "t", val |-> v,
                pre |-> Get(RefObj, "t"), before |-> Snapshot(RefObj),
                after_failure |-> last.failed]
    /\ UNCHANGED <<scheduled, held, defined, declared, cparams, failed, icls, ivalues, heap,
                   scopes, log, raised>>

\* with discard_events(o): -- entering the scope.  Events are accumulated
\* as in a batch; what was pending before is remembered.
DiscardEnter(o) ==
    /\ ~Running
    /\ Exists(o)
    /\ scopes' = <<[kind |-> "discard", obj |-> o, saved |-> pstate[o].BATCH_WATCH,
                    events |-> pstate[o].events, watchers |-> pstate[o].watchers]>>
                  \o scopes
    /\ pstate' = [pstate EXCEPT ![o].BATCH_WATCH = TRUE]
    /\ last' = IF scopes = <<>>
               THEN [op |-> "discard", obj |-> o, before |-> Snapshot(o),
                     sets |-> <<>>, failed |-> FALSE]
               ELSE last
    /\ UNCHANGED <<scheduled, held, defined, declared, cparams, failed, icls, ivalues, heap,
                   watchers, stack, log, raised>>

\* (fault) only the flag is restored: what the scope accumulated stays pending.
DiscardRestoreFlagOnly(sc, st) == [st EXCEPT !.BATCH_WATCH = sc.saved]

\* The state discard_events puts back on exit: the flag, the pending Events
\* and the pending watchers as they were on entry.
DiscardRestore(sc, st) ==
    [st EXCEPT !.BATCH_WATCH = sc.saved, !.events = sc.events,
               !.watchers = sc.watchers]

\* Leaving the innermost discard_events scope: nothing is dispatched.
DiscardExit ==
    /\ ~Running
    /\ scopes # <<>>
    /\ Head(scopes).kind = "discard"
    /\ LET sc == Head(scopes)
       IN  pstate' = [pstate EXCEPT ![sc.obj] = DiscardRestore(sc, pstate[sc.obj])]
    /\ stack' = <<[op |-> "done"]>>
    /\ scopes' = Tail(scopes)
    /\ UNCHANGED <<scheduled, held, defined, declared, cparams, failed, icls, ivalues, heap,
                   watchers, log, last, raised>>

\* An exception is raised in the body of the innermost open scope.
BodyRaise ==
    /\ ~Running
    /\ scopes # <<>>
    /\ raised' = "BodyError"
    /\ stack' = <<[op |-> "propagate"], [op |-> "done"]>>
    /\ UNCHANGED <<scheduled, held, defined, declared, cparams, failed, icls, ivalues, heap,
                   watchers, pstate, scopes, log, last>>

\* (fault) the scope is cleaned up on a normal exit only.
OnExceptionSkip(cleaned, st) == st

\* The state of the object when an exception leaves a scope on it: the
\* same as on a normal exit.
OnException(cleaned, st) == cleaned

\* The exception leaves the innermost open scope, which is ended as on a
\* normal exit (a batch dispatches what it accumulated, a discard puts back
\* what was pending), and goes on to the enclosing one; with no scope left
\* it reaches the user program.
StepPropagate ==
    /\ Running /\ Top.op = "propagate"
    /\ IF scopes = <<>>
       THEN /\ stack' = Rest
            /\ UNCHANGED <<pstate, scopes>>
       ELSE LET sc == Head(scopes)
                st == pstate[sc.obj]
                cleaned == IF sc.kind = "discard" THEN DiscardRestore(sc, st)
                           ELSE [st EXCEPT !.BATCH_WATCH = sc.saved]
            IN  /\ scopes' = Tail(scopes)
                /\ pstate' = [pstate EXCEPT ![sc.obj] = OnException(cleaned, st)]
                /\ stack' = IF sc.kind = "batch" /\ Outermost(sc.saved)
                            THEN <<[op |-> "batch_call", obj |-> sc.obj]>> \o stack
                            ELSE stack
    /\ UNCHANGED <<scheduled, held, defined, declared, cparams, failed, icls, ivalues, heap,
                   watchers, log, last, raised>>

InitCommon ==
    /\ defined = {}
    /\ declared = [c \in Classes |-> EmptyFn]
    /\ cparams = [c \in Classes |-> EmptyFn]
    /\ failed = {}
    /\ icls = [p \in Instances |-> "none"]
    /\ ivalues = [p \in Instances |-> EmptyFn]
    /\ heap = <<>>
    /\ watchers = <<>>
    /\ pstate = [o \in Objs |-> [BATCH_WATCH |-> FALSE, TRIGGER |-> FALSE,
                                 events |-> <<>>, watchers |-> <<>>,
                                 initialized |-> TRUE, params |-> EmptyFn,
                                 refs |-> EmptyFn]]
    /\ stack = <<>>
    /\ scopes = <<>>
    /\ log = <<>>
    /\ held = [o \in Objs |-> Undefined]
    /\ last = [op |-> "none", failed |-> FALSE]
    /\ raised = "none"
    /\ scheduled = <<>>

(***************************************************************************)
(* SpecInherit: class creation alone, over every class body.               *)
(***************************************************************************)
InitInherit == InitCommon

NextInherit == \E c \in Classes, body \in ClassBodies : DefineClass(c, body)

SpecInherit == InitInherit /\ [][NextInherit]_vars

(***************************************************************************)
(* SpecStore: a hierarchy whose root declares x, instances of its classes, *)
(* class-level and instance-level writes of x, and class-level watchers.   *)
(***************************************************************************)
StoreBounds == <<0, 1>>

StoreBodies ==
    [A |-> {[n \in {"x"} |-> Decl(1, StoreBounds, Undefined)]},
     B |-> {EmptyFn},
     C |-> {EmptyFn, [n \in {"x"} |-> Decl(Undefined, UndefBounds, Undefined)]},
     D |-> {EmptyFn}]

StoreClassOf == [p1 |-> {"D"}, p2 |-> {"B"}]

WatchedClasses == {"A", "B"}

MaxClassWatchers == 1

InitStore == InitCommon

NextStore ==
    \/ \E c \in Classes : \E body \in StoreBodies[c] : DefineClass(c, body)
    \/ \E p \in DOMAIN StoreClassOf : \E c \in StoreClassOf[p] : Instantiate(p, c)
    \/ \E o \in Objs, v \in Num \cup {None} : SetAttr(o, "x", v)
    \/ \E c \in WatchedClasses :
          /\ Len(watchers) < MaxClassWatchers
          /\ Watch(c, "x", TRUE, FALSE, 0, "log")
    \/ Step

SpecStore == InitStore /\ [][NextStore]_vars

(***************************************************************************)
(* SpecDispatch: class P of the user guide (parameters a and b), one       *)
(* instance, watchers of several kinds, and sets of a and b.               *)
(***************************************************************************)
MaxVal == 3

Val == 0..MaxVal

MaxWatchers == 2

DispatchBody ==
    [n \in {"a", "b"} |-> Decl(0, UndefBounds, Undefined)]

\* The watchers a program registers: on a (a callback that only reports,
\* or one that also sets b to the new value of a) or on b (reporting).
Kind(name, fn, onlychanged, queued, precedence) ==
    [name |-> name, fn |-> fn, onlychanged |-> onlychanged, queued |-> queued,
     precedence |-> precedence]

WatchKinds ==
    {Kind("a", "log", TRUE, FALSE, 0),
     Kind("a", "log", FALSE, FALSE, 2),
     Kind("a", "log", TRUE, TRUE, 0),
     Kind("a", "set_b", TRUE, FALSE, 1),
     Kind("a", "set_b", TRUE, TRUE, 1),
     Kind("b", "log", TRUE, TRUE, 0),
     Kind("b", "log", FALSE, FALSE, 0)}

InitDispatch == InitCommon

NextDispatch ==
    \/ DefineClass("A", DispatchBody)
    \/ Instantiate("p1", "A")
    \/ \E k \in WatchKinds :
          /\ Len(watchers) < MaxWatchers
          /\ Watch("p1", k.name, k.onlychanged, k.queued, k.precedence, k.fn)
    \/ \E name \in {"a", "b"}, v \in Val : SetAttr("p1", name, v)
    \/ Step

SpecDispatch == InitDispatch /\ [][NextDispatch]_vars

(***************************************************************************)
(* SpecBatch: the same class and instance, watchers of a, and sets of a    *)
(* made inside a batch_call_watchers scope.                                *)
(***************************************************************************)
MaxBatchSets == 3

BatchKinds == {k \in WatchKinds : k.name = "a" /\ k.fn = "log"}

InitBatch == InitCommon

NextBatch ==
    \/ DefineClass("A", DispatchBody)
    \/ Instantiate("p1", "A")
    \/ \E k \in BatchKinds :
          /\ Len(watchers) < MaxWatchers
          /\ scopes = <<>>
          /\ Watch("p1", k.name, k.onlychanged, k.queued, k.precedence, k.fn)
    \/ scopes = <<>> /\ BatchEnter("p1")
    \/ \E v \in Val :
          /\ scopes # <<>>
          /\ Len(last.sets) < MaxBatchSets
          /\ SetAttr("p1", "a", v)
    \/ BatchExit
    \/ Step

SpecBatch == InitBatch /\ [][NextBatch]_vars

(***************************************************************************)
(* SpecDiscard: the same class and instance, and sets of a and b made      *)
(* inside a discard_events scope and outside it.                           *)
(***************************************************************************)
DiscardKinds ==
    {Kind("a", "log", FALSE, FALSE, 2),
     Kind("a", "set_b", TRUE, FALSE, 1),
     Kind("b", "log", FALSE, FALSE, 0)}

DiscardVals == {0, 1, None}

InitDiscard == InitCommon

NextDiscard ==
    \/ DefineClass("A", DispatchBody)
    \/ Instantiate("p1", "A")
    \/ \E k \in DiscardKinds :
          /\ Len(watchers) < MaxWatchers
          /\ scopes = <<>>
          /\ Watch("p1", k.name, k.onlychanged, k.queued, k.precedence, k.fn)
    \/ scopes = <<>> /\ DiscardEnter("p1")
    \/ \E name \in {"a", "b"}, v \in DiscardVals :
          /\ scopes # <<>> => Len(last.sets) < MaxBatchSets
          /\ SetAttr("p1", name, v)
    \/ DiscardExit
    \/ Step

SpecDiscard == InitDiscard /\ [][NextDiscard]_vars

(***************************************************************************)
(* SpecTrigger: the same class and instance, sets of a and b and explicit  *)
(* triggers of a and b.                                                    *)
(***************************************************************************)
InitTrigger == InitCommon

NextTrigger ==
    \/ DefineClass("A", DispatchBody)
    \/ Instantiate("p1", "A")
    \/ \E k \in WatchKinds :
          /\ Len(watchers) < MaxWatchers
          /\ Watch("p1", k.name, k.onlychanged, k.queued, k.precedence, k.fn)
    \/ \E name \in {"a", "b"}, v \in Val : SetAttr("p1", name, v)
    \/ \E name \in {"a", "b"} : Trigger("p1", name)
    \/ Step
    \/ StepEndUpdate
    \/ StepEndTrigger

SpecTrigger == InitTrigger /\ [][NextTrigger]_vars

(***************************************************************************)
(* SpecDepends: class A (parameters a and b) with instances p2 and p3, and *)
(* class C(A) with n = ClassSelector(default=p2, instantiate=False) and a  *)
(* method depending on 'n.a'; its instance p1.  n is reassigned and a is   *)
(* set on p2 and on p3.                                                    *)
(***************************************************************************)
SubObjects == {"p2", "p3"}

DependsBody == [n \in {"n"} |-> Decl(2, UndefBounds, 0)]

InitDepends == InitCommon

NextDepends ==
    \/ DefineClass("A", DispatchBody)
    \/ \E p \in SubObjects : Instantiate(p, "A")
    \/ icls["p2"] # "none" /\ DefineClass("C", DependsBody)
    \/ \E queued \in BOOLEAN : InstantiateDepends(Owner, "C", queued)
    \/ \E v \in {2, 3} : icls[InstanceAt[v]] # "none" /\ SetAttr(Owner, "n", v)
    \/ \E p \in SubObjects, v \in Val : SetAttr(p, "a", v)
    \/ Step
    \/ StepRebind

SpecDepends == InitDepends /\ [][NextDepends]_vars

(***************************************************************************)
(* SpecUnwatch: class P and p1 again; watchers of a whose callback         *)
(* unregisters the "victim" watchers, victims before and after them in     *)
(* precedence, sets of a inside and outside a batch, and unwatch calls of  *)
(* the program itself.                                                     *)
(***************************************************************************)
\* The number of watch calls the program makes.
MaxRegistrations == 3

\* The sets of a made inside one batch.
MaxUnwatchSets == 2

UnwatchVals == {0, 1}

UnwatchKinds ==
    {Kind("a", "unwatch", FALSE, FALSE, 0),
     Kind("a", "unwatch", FALSE, TRUE, 0),
     Kind("a", "victim", FALSE, FALSE, 1),
     Kind("a", "victim", FALSE, TRUE, -1)}

InitUnwatch == InitCommon

NextUnwatch ==
    \/ DefineClass("A", DispatchBody)
    \/ Instantiate("p1", "A")
    \/ \E k \in UnwatchKinds :
          /\ scopes = <<>>
          /\ Len(watchers) < MaxWatchers
          /\ NextId(watchers) <= MaxRegistrations
          /\ Watch("p1", k.name, k.onlychanged, k.queued, k.precedence, k.fn)
    \/ \E i \in 1..Len(watchers) : Unwatch(watchers[i])
    \/ scopes = <<>> /\ BatchEnter("p1")
    \/ \E v \in UnwatchVals :
          /\ scopes # <<>> => Len(last.sets) < MaxUnwatchSets
          /\ SetAttr("p1", "a", v)
    \/ BatchExit
    \/ Step
    \/ StepUnwatch

SpecUnwatch == InitUnwatch /\ [][NextUnwatch]_vars

(***************************************************************************)
(* SpecRaise: class P and p1; watchers of a whose callback raises, others  *)
(* that report, before and after them in precedence, queued or not; sets   *)
(* of a inside and outside a batch.                                        *)
(***************************************************************************)
MaxRaiseSets == 2

RaiseVals == {0, 1}

RaiseKinds ==
    {Kind("a", "raise", FALSE, FALSE, 0),
     Kind("a", "raise", FALSE, TRUE, 0),
     Kind("a", "log", FALSE, FALSE, 1),
     Kind("a", "log", TRUE, TRUE, 1),
     Kind("a", "log", FALSE, FALSE, -1)}

InitRaise == InitCommon

NextRaise ==
    \/ DefineClass("A", DispatchBody)
    \/ Instantiate("p1", "A")
    \/ \E k \in RaiseKinds :
          /\ scopes = <<>>
          /\ Len(watchers) < MaxWatchers
          /\ Watch("p1", k.name, k.onlychanged, k.queued, k.precedence, k.fn)
    \/ scopes = <<>> /\ BatchEnter("p1")
    \/ \E v \in RaiseVals :
          /\ scopes # <<>> => Len(last.sets) < MaxRaiseSets
          /\ SetAttr("p1", "a", v)
    \/ BatchExit
    \/ Step
    \/ StepRaise

SpecRaise == InitRaise /\ [][NextRaise]_vars

(***************************************************************************)
(* SpecAsync: class P and p1; synchronous and asynchronous watchers of a   *)
(* in every order of precedence; sets of a inside and outside a batch, and *)
(* the event loop running what was scheduled between two operations.       *)
(***************************************************************************)
MaxScheduled == 3

MaxAsyncSets == 2

AsyncVals == {0, 1}

AsyncKinds ==
    {Kind("a", "fetch", FALSE, FALSE, 0),
     Kind("a", "fetch", TRUE, TRUE, 1),
     Kind("a", "log", FALSE, FALSE, 0),
     Kind("a", "log", TRUE, TRUE, 1)}

InitAsync == InitCommon

NextAsync ==
    \/ DefineClass("A", DispatchBody)
    \/ Instantiate("p1", "A")
    \/ \E k \in AsyncKinds :
          /\ scopes = <<>>
          /\ Len(watchers) < MaxWatchers
          /\ Watch("p1", k.name, k.onlychanged, k.queued, k.precedence, k.fn)
    \/ scopes = <<>> /\ BatchEnter("p1")
    \/ \E v \in AsyncVals :
          /\ Len(scheduled) + Len(watchers) <= MaxScheduled
          /\ scopes # <<>> => Len(last.sets) < MaxAsyncSets
          /\ SetAttr("p1", "a", v)
    \/ BatchExit
    \/ RunTask
    \/ Step

SpecAsync == InitAsync /\ [][NextAsync]_vars

(***************************************************************************)
(* SpecQueued: class P and p1 with the watchers of the user guide's        *)
(* example: run_a1 (queued, sets b) before or after the other watchers of  *)
(* a in precedence, run_a2 (reporting, or setting b itself) and run_b.     *)
(***************************************************************************)
MaxQueuedWatchers == 3

QueuedVals == {0, 1}

QueuedKinds ==
    {Kind("a", "set_b", TRUE, TRUE, 0),
     Kind("a", "set_b", TRUE, TRUE, 2),
     Kind("a", "log", TRUE, FALSE, 1),
     Kind("a", "set_b", TRUE, FALSE, 1),
     Kind("b", "log", TRUE, FALSE, 0),
     Kind("b", "log", FALSE, FALSE, 0)}

InitQueued == InitCommon

NextQueued ==
    \/ DefineClass("A", DispatchBody)
    \/ Instantiate("p1", "A")
    \/ \E k \in QueuedKinds :
          /\ Len(watchers) < MaxQueuedWatchers
          /\ Watch("p1", k.name, k.onlychanged, k.queued, k.precedence, k.fn)
    \/ \E name \in {"a", "b"}, v \in QueuedVals : SetAttr("p1", name, v)
    \/ Step

SpecQueued == InitQueued /\ [][NextQueued]_vars

(***************************************************************************)
(* SpecReject: a class whose x has bounds (0, 1), its instance p1 with     *)
(* watchers of x, and sets of x to valid and to invalid values, inside and *)
(* outside a batch.                                                        *)
(***************************************************************************)
MaxRejectSets == 2

RejectBody == [n \in {"x"} |-> Decl(1, StoreBounds, Undefined)]

RejectVals == {0, 1, 2, None}

RejectKinds ==
    {Kind("x", "log", FALSE, FALSE, 0),
     Kind("x", "log", TRUE, FALSE, 1),
     Kind("x", "log", FALSE, TRUE, 2)}

InitReject == InitCommon

NextReject ==
    \/ DefineClass("A", RejectBody)
    \/ Instantiate("p1", "A")
    \/ \E k \in RejectKinds :
          /\ scopes = <<>>
          /\ Len(watchers) < MaxWatchers
          /\ Watch("p1", k.name, k.onlychanged, k.queued, k.precedence, k.fn)
    \/ scopes = <<>> /\ BatchEnter("p1")
    \/ \E v \in RejectVals :
          /\ scopes # <<>> => Len(last.sets) < MaxRejectSets
          /\ SetAttr("p1", "x", v)
    \/ BatchExit
    \/ Step

SpecReject == InitReject /\ [][NextReject]_vars

(***************************************************************************)
(* SpecScope: class P with two instances, created before or after the      *)
(* watchers are registered; watchers of a on p1, on p2 and on the class;   *)
(* sets of a on each of the three.                                         *)
(***************************************************************************)
ScopeObjs == {"p1", "p2", "A"}

ScopeVals == {0, 1}

InitScope == InitCommon

NextScope ==
    \/ DefineClass("A", DispatchBody)
    \/ \E p \in {"p1", "p2"} : Instantiate(p, "A")
    \/ \E o \in ScopeObjs, oc \in BOOLEAN :
          /\ Len(watchers) < MaxWatchers
          /\ Watch(o, "a", oc, FALSE, 0, "log")
    \/ \E o \in ScopeObjs, v \in ScopeVals : SetAttr(o, "a", v)
    \/ Step

SpecScope == InitScope /\ [][NextScope]_vars

(***************************************************************************)
(* SpecNested: class P and p1 with watchers of a and b; batch scopes on p1 *)
(* nested in one another, sets of a and b and .param.update calls made     *)
(* inside them and outside.                                                *)
(***************************************************************************)
MaxDepth == 2

MaxNestedSets == 2

NestedVals == {0, 1}

NestedKinds ==
    {Kind("a", "log", TRUE, FALSE, 0),
     Kind("a", "log", FALSE, FALSE, 1),
     Kind("b", "log", TRUE, TRUE, 0),
     Kind("b", "log", FALSE, FALSE, 0)}

InitNested == InitCommon

NextNested ==
    \/ DefineClass("A", DispatchBody)
    \/ Instantiate("p1", "A")
    \/ \E k \in NestedKinds :
          /\ scopes = <<>>
          /\ Len(watchers) < MaxWatchers
          /\ Watch("p1", k.name, k.onlychanged, k.queued, k.precedence, k.fn)
    \/ Len(scopes) < MaxDepth /\ BatchEnter("p1")
    \/ \E name \in {"a", "b"}, v \in NestedVals :
          /\ scopes # <<>> => Len(last.sets) < MaxNestedSets
          /\ SetAttr("p1", name, v)
    \/ \E va \in NestedVals, vb \in NestedVals :
          /\ scopes # <<>> => Len(last.sets) < MaxNestedSets
          /\ Update("p1", va, vb)
    \/ BatchExit
    \/ Step
    \/ StepEndUpdate

SpecNested == InitNested /\ [][NextNested]_vars

(***************************************************************************)
(* SpecCleanup: class P and p1 with watchers of a and b; batch scopes and  *)
(* discard scopes on p1, nested in one another, whose body sets a and b    *)
(* and then ends normally or raises; sets of a and b outside any scope.    *)
(***************************************************************************)
MaxCleanupSets == 1

CleanupVals == {0, 1}

InitCleanup == InitCommon

NextCleanup ==
    \/ DefineClass("A", DispatchBody)
    \/ Instantiate("p1", "A")
    \/ \E k \in NestedKinds :
          /\ scopes = <<>>
          /\ Len(watchers) < MaxWatchers
          /\ Watch("p1", k.name, k.onlychanged, k.queued, k.precedence, k.fn)
    \/ Len(scopes) < MaxDepth /\ BatchEnter("p1")
    \/ Len(scopes) < MaxDepth /\ DiscardEnter("p1")
    \/ \E name \in {"a", "b"}, v \in CleanupVals :
          /\ scopes # <<>> => Len(last.sets) < MaxCleanupSets
          /\ SetAttr("p1", name, v)
    \/ BatchExit
    \/ DiscardExit
    \/ BodyRaise
    \/ Step
    \/ StepPropagate

SpecCleanup == InitCleanup /\ [][NextCleanup]_vars

(***************************************************************************)
(* SpecEvent: class Q with e = param.Event() and an Integer b; its         *)
(* instance has watchers of e whose callback stores in b what it reads on  *)
(* e; e is set and triggered.                                              *)
(***************************************************************************)
EventBody ==
    [n \in {"e", "b"} |-> IF n = "e" THEN Decl(0, <<0, 1>>, Undefined)
                          ELSE Decl(0, UndefBounds, Undefined)]

EventKinds ==
    {Kind("e", "see", TRUE, FALSE, 0),
     Kind("e", "see", FALSE, TRUE, 1),
     Kind("e", "log", TRUE, FALSE, 1),
     Kind("b", "log", TRUE, FALSE, 0)}

InitEvent == InitCommon

NextEvent ==
    \/ DefineClass("A", EventBody)
    \/ Instantiate("p1", "A")
    \/ \E k \in EventKinds :
          /\ Len(watchers) < MaxWatchers
          /\ Watch("p1", k.name, k.onlychanged, k.queued, k.precedence, k.fn)
    \/ \E v \in {0, 1} : SetAttr("p1", "e", v)
    \/ \E v \in {0, 1} : SetAttr("p1", "b", v)
    \/ \E name \in {"e", "b"} : Trigger("p1", name)
    \/ Step
    \/ StepEndUpdate
    \/ StepEndTrigger
    \/ StepResetEvent

SpecEvent == InitEvent /\ [][NextEvent]_vars

(***************************************************************************)
(* SpecMethods: class D of the user guide, reduced to a and b: cb3 depends *)
(* on a, cb4 on the method name 'cb3', and a further cb5 on 'cb4'; nothing *)
(* depends on b.  p1 is an instance; a and b are set outside any batch,    *)
(* and the program may add watchers of its own.                            *)
(***************************************************************************)
\* @param.depends(..., watch=True) of each method, in the order in which
\* the class body declares them.
MethodDecls ==
    <<[name |-> "cb3", deps |-> {"a"}],
      [name |-> "cb4", deps |-> {"cb3"}],
      [name |-> "cb5", deps |-> {"cb4"}]>>

MethodNames == {MethodDecls[i].name : i \in 1..Len(MethodDecls)}

DeclOf(m) == CHOOSE dc \in Range(MethodDecls) : dc.name = m

\* (fault) a method name stands for the parameters that method names
\* itself, and not for those it inherits from further method names.
DependenciesOfDirect(m) ==
    {n \in DeclOf(m).deps : n \notin MethodNames}
        \cup UNION {{n \in DeclOf(d).deps : n \notin MethodNames} :
                        d \in DeclOf(m).deps \cap MethodNames}

\* The parameters method m watches: those it names, and everything watched
\* by each method it names.
RECURSIVE DependenciesOf(_)
DependenciesOf(m) ==
    {n \in DeclOf(m).deps : n \notin MethodNames}
        \cup UNION {DependenciesOf(d) : d \in DeclOf(m).deps \cap MethodNames}

\* The watchers of the methods from position i of the declarations on, added
\* to ws: one for each parameter the method watches, with the precedence
\* Param uses for its own watchers.
RECURSIVE MethodWatchers(_, _, _)
MethodWatchers(ws, o, i) ==
    IF i > Len(MethodDecls) THEN ws
    ELSE LET names == SeqOfSet(DependenciesOf(MethodDecls[i].name))
             own == [k \in 1..Len(names) |->
                        [id |-> NextId(ws) + k - 1, obj |-> o, name |-> names[k],
                         onlychanged |-> TRUE, queued |-> FALSE,
                         precedence |-> -1, fn |-> MethodDecls[i].name]]
         IN  MethodWatchers(ws \o own, o, i + 1)

\* Parameterized.__init__ of the class: the instance as in Instantiate, and
\* the watchers of its depends(watch=True) methods.
InstantiateMethods(p, c) ==
    /\ ~Running
    /\ icls[p] = "none"
    /\ c \in defined
    /\ icls' = [icls EXCEPT ![p] = c]
    /\ ivalues' = [ivalues EXCEPT ![p] = EmptyFn]
    /\ watchers' = MethodWatchers(watchers, p, 1)
    /\ UNCHANGED <<scheduled, held, defined, declared, cparams, failed, heap,
                   pstate, stack, scopes, log, last, raised>>

MethodKinds ==
    {Kind("a", "log", TRUE, FALSE, 0),
     Kind("a", "log", FALSE, FALSE, 1),
     Kind("b", "log", TRUE, FALSE, 0)}

InitMethods == InitCommon

NextMethods ==
    \/ DefineClass("A", DispatchBody)
    \/ InstantiateMethods("p1", "A")
    \/ \E k \in MethodKinds :
          /\ Len(watchers) < Len(MethodDecls) + 1
          /\ Watch("p1", k.name, k.onlychanged, k.queued, k.precedence, k.fn)
    \/ \E name \in {"a", "b"}, v \in Val : SetAttr("p1", name, v)
    \/ Step

SpecMethods == InitMethods /\ [][NextMethods]_vars

(***************************************************************************)
(* SpecMutual: class A and p1 with a watcher of a whose callback sets b    *)
(* and a watcher of b whose callback sets a, both onlychanged, queued or   *)
(* not; a and b are set outside any batch, before and after the watchers   *)
(* are registered.  A set, once called, runs until it returns.             *)
(***************************************************************************)
\* The call depth Python allows (sys.getrecursionlimit), in stack frames.
MaxStack == 12

MutualVals == 0..MaxMutual

\* The callbacks of the watcher of a and of the watcher of b.
MutualPairs == {<<"set_b", "set_a">>, <<"flip_b", "flip_a">>, <<"clamp_b", "set_a">>}

\* One step of the set in progress, within the call depth.
StepWithinDepth == Len(stack) <= MaxStack /\ Step

InitMutual == InitCommon

NextMutual ==
    \/ DefineClass("A", DispatchBody)
    \/ Instantiate("p1", "A")
    \/ \E pair \in MutualPairs, queued \in BOOLEAN :
          /\ watchers = <<>>
          /\ Watch("p1", "a", TRUE, queued, 0, pair[1])
    \/ \E pair \in MutualPairs, queued \in BOOLEAN :
          /\ Len(watchers) = 1 /\ watchers[1].fn = pair[1]
          /\ Watch("p1", "b", TRUE, queued, 0, pair[2])
    \/ \E name \in {"a", "b"}, v \in MutualVals : SetAttr("p1", name, v)
    \/ StepWithinDepth

SpecMutual == InitMutual /\ [][NextMutual]_vars /\ WF_vars(StepWithinDepth)

(***************************************************************************)
(* SpecConstant: class A with k (constant=True) and r (readonly=True); p1  *)
(* is constructed in two steps, p2 in one; sets of k and r on both, during *)
(* the initialization of p1, inside edit_constant scopes on either         *)
(* instance and outside them; a watcher of k on p1.                        *)
(***************************************************************************)
MaxEditScopes == 2

MaxEditSets == 2

ConstantVals == {0, 1}

ConstantBody == [n \in {"k", "r"} |-> Decl(0, UndefBounds, Undefined)]

InitConstant == InitCommon

NextConstant ==
    \/ DefineClass("A", ConstantBody)
    \/ BeginInit("p1", "A")
    \/ EndInit("p1")
    \/ Instantiate("p2", "A")
    \/ \E p \in {"p1", "p2"} : Len(scopes) < MaxEditScopes /\ EditEnter(p)
    \/ EditExit
    \/ \E p \in {"p1", "p2"}, name \in {"k", "r"}, v \in ConstantVals :
          /\ scopes # <<>> => Len(last.sets) < MaxEditSets
          /\ SetAttr(p, name, v)
    \/ /\ scopes = <<>>
       /\ watchers = <<>>
       /\ pstate["p1"].initialized
       /\ Watch("p1", "k", FALSE, FALSE, 0, "log")
    \/ Step

SpecConstant == InitConstant /\ [][NextConstant]_vars

(***************************************************************************)
(* SpecUnsafe: class P; p1 is constructed in two steps and p2 in one; on   *)
(* both the program registers watchers, triggers a, asks for the           *)
(* instance's Parameter objects, forces a new dynamic value and sets a,    *)
(* before and after the initialization of p1 is over.                      *)
(***************************************************************************)
UnsafeOps == {"watch", "trigger", "objects"}

UnsafeKinds == {Kind("a", "log", TRUE, FALSE, 0), Kind("a", "log", FALSE, TRUE, 1)}

UnsafeVals == {0, 1, None}

InitUnsafe == InitCommon

NextUnsafe ==
    \/ DefineClass("A", DispatchBody)
    \/ BeginInit("p1", "A")
    \/ EndInit("p1")
    \/ Instantiate("p2", "A")
    \/ \E p \in {"p1", "p2"}, k \in UnsafeKinds :
          /\ Len(watchers) < MaxWatchers
          /\ Watch(p, k.name, k.onlychanged, k.queued, k.precedence, k.fn)
    \/ \E p \in {"p1", "p2"} : Trigger(p, "a")
    \/ \E p \in {"p1", "p2"} : ParamObjects(p)
    \/ \E p \in {"p1", "p2"} : ForceNewDynamicValue(p, "a")
    \/ \E p \in {"p1", "p2"}, v \in UnsafeVals : SetAttr(p, "a", v)
    \/ Step
    \/ StepEndUpdate
    \/ StepEndTrigger

SpecUnsafe == InitUnsafe /\ [][NextUnsafe]_vars

(***************************************************************************)
(* SpecRefs: x = p1 of class A (parameter a, the source) and y = p2 of     *)
(* class B(A) with t = Number(allow_refs=True).  y.t is given references   *)
(* to x.a of the three kinds and plain values, x.a is set, and watchers    *)
(* report on x.a and on y.t.                                               *)
(***************************************************************************)
RefBody == [n \in {"t"} |-> Decl(0, UndefBounds, Undefined)]

RefKinds == {"param", "bind", "rx"}

RefVals == {0, 1, 2}

RefWatchKinds == {Kind("a", "log", FALSE, FALSE, 0), Kind("t", "log", TRUE, FALSE, 0)}

InitRefs == InitCommon

NextRefs ==
    \/ DefineClass("A", DispatchBody)
    \/ DefineClass("B", RefBody)
    \/ Instantiate("p1", "A")
    \/ Instantiate(RefObj, "B")
    \/ \E k \in RefWatchKinds :
          /\ Len(watchers) < MaxWatchers + Len(SyncWatchers(watchers))
          /\ Watch(IF k.name = "t" THEN RefObj ELSE "p1",
                   k.name, k.onlychanged, k.queued, k.precedence, k.fn)
    \/ \E kind \in RefKinds, queued \in BOOLEAN : SetRef(Ref(kind, "p1", "a"), queued)
    \/ \E v \in RefVals : SetOverRef(v)
    \/ \E v \in RefVals : SetAttr("p1", "a", v)
    \/ \E v \in RefVals : SetAttr(RefObj, "t", v)
    \/ Step

SpecRefs == InitRefs /\ [][NextRefs]_vars

(***************************************************************************)
(* SpecAlias: classes A and B(A) with a parameter m whose default is a     *)
(* list, instances of both, and in-place changes of the list read from an  *)
(* instance.                                                               *)
(***************************************************************************)
MaxLists == 1

MaxAppends == 2

AliasBodies(r) ==
    [A |-> {[n \in {"m"} |-> Decl(r, UndefBounds, i)] : i \in {Undefined, 0, 1}},
     B |-> {EmptyFn} \cup
           {[n \in {"m"} |-> Decl(Undefined, UndefBounds, i)] : i \in {0, 1}}]

InitAlias == InitCommon

NextAlias ==
    \/ Len(heap) < MaxLists /\ NewList
    \/ \E c \in {"A", "B"} : \E r \in 1..Len(heap) :
          \E body \in AliasBodies(r)[c] : DefineClass(c, body)
    \/ \E p \in {"p1", "p2"}, c \in {"A", "B"} : Instantiate(p, c)
    \/ \E p \in {"p1", "p2"} :
          /\ icls[p] # "none"
          /\ heap[InstanceGet(p, "m")] < MaxAppends
          /\ Mutate(p)

SpecAlias == InitAlias /\ [][NextAlias]_vars

(***************************************************************************)
(* Properties of class creation (SpecInherit).                             *)
(***************************************************************************)
SpecifiedDefault(k) ==
    "x" \in DOMAIN declared[k] /\ declared[k]["x"].default # Undefined

SpecifiedBounds(k) ==
    "x" \in DOMAIN declared[k] /\ declared[k]["x"].bounds # UndefBounds

\* The default (bounds) written in the class body of the nearest class of
\* c's MRO, from position i on, whose body specifies it.
RECURSIVE NearestDefault(_, _)
NearestDefault(c, i) ==
    IF i > Len(MRO[c]) THEN 0
    ELSE IF SpecifiedDefault(MRO[c][i]) THEN declared[MRO[c][i]]["x"].default
    ELSE NearestDefault(c, i + 1)

RECURSIVE NearestBounds(_, _)
NearestBounds(c, i) ==
    IF i > Len(MRO[c]) THEN NoBounds
    ELSE IF SpecifiedBounds(MRO[c][i]) THEN declared[MRO[c][i]]["x"].bounds
    ELSE NearestBounds(c, i + 1)

SlotsFromNearestSpecifier(c) ==
    /\ cparams[c]["x"].default = NearestDefault(c, 1)
    /\ cparams[c]["x"].bounds = NearestBounds(c, 1)

\* The classes after c in its MRO that declare x in their body.
DeclaringAncestors(c) ==
    SelectSeq(Tail(MRO[c]), LAMBDA k : "x" \in DOMAIN declared[k])

\* The classes of c's MRO that declare x lie on one single-inheritance chain.
OnOneChain(c) ==
    ~(c = "D" /\ "x" \in DOMAIN declared["B"] /\ "x" \in DOMAIN declared["C"])

(* C6: when a class redeclares x, every slot its body specifies keeps the
   body's value, and every slot it leaves unspecified has the merged value
   of the nearest class in MRO order that declares x (the type's default
   when there is none); when the declaring classes lie on one inheritance
   chain that is the value written by the nearest ancestor whose body
   specifies the slot, over any number of levels. *)
C6_SlotsInherited ==
    \A c \in defined :
        "x" \in DOMAIN declared[c] =>
            LET raw == declared[c]["x"]
                anc == DeclaringAncestors(c)
                own == cparams[c]["x"]
            IN  /\ raw.default # Undefined => own.default = raw.default
                /\ raw.bounds # UndefBounds => own.bounds = raw.bounds
                /\ (raw.default = Undefined /\ anc # <<>>)
                      => own.default = cparams[anc[1]]["x"].default
                /\ (raw.bounds = UndefBounds /\ anc # <<>>)
                      => own.bounds = cparams[anc[1]]["x"].bounds
                /\ (raw.default = Undefined /\ anc = <<>>) => own.default = 0
                /\ (raw.bounds = UndefBounds /\ anc = <<>>) => own.bounds = NoBounds
                /\ OnOneChain(c) => SlotsFromNearestSpecifier(c)

\* A: default 1, bounds (0, 1); B(A): bounds only; D(B, C): bounds=None only.
C6_Witness ==
    /\ defined = Classes
    /\ declared["A"] = [n \in {"x"} |-> Decl(1, <<0, 1>>, Undefined)]
    /\ declared["B"] = [n \in {"x"} |-> Decl(Undefined, <<1, MaxNum>>, Undefined)]
    /\ declared["C"] = EmptyFn
    /\ declared["D"] = [n \in {"x"} |-> Decl(Undefined, NoBounds, Undefined)]
    /\ cparams["B"]["x"].default = 1
    /\ cparams["B"]["x"].bounds = <<1, MaxNum>>
    /\ cparams["D"]["x"].default = 1
    /\ cparams["D"]["x"].bounds = NoBounds

(* C7: a class that redeclares x with an explicit default of None has the
   merged default None, whatever default its ancestors have. *)
C7_ExplicitNoneKept ==
    \A c \in defined :
        ("x" \in DOMAIN declared[c] /\ declared[c]["x"].default = None)
            => cparams[c]["x"].default = None

C7_Witness ==
    /\ {"A", "B"} \subseteq defined
    /\ "x" \in DOMAIN declared["A"] /\ cparams["A"]["x"].default = 1
    /\ "x" \in DOMAIN declared["B"] /\ declared["B"]["x"].default = None
    /\ cparams["B"]["x"].default = None

(***************************************************************************)
(* Properties of the value store (SpecStore).                              *)
(***************************************************************************)
\* History: what a read of x on instance p must give.
AbstractRead(p) ==
    IF held[p] # Undefined THEN held[p] ELSE HeldFrom(icls[p], 1)

(* C1: a read of x on an instance gives the value last written on the
   instance if there is one, else the value held by the nearest class of
   the instance's MRO that holds one (written on it, or declared by it). *)
C1_ReadMostSpecific ==
    \A p \in Instances : icls[p] # "none" => InstanceGet(p, "x") = AbstractRead(p)

\* p1 (a D) has no value of its own; B was written after A: p1 reads B's.
C1_Witness ==
    /\ icls["p1"] = "D" /\ held["p1"] = Undefined
    /\ held["D"] = Undefined /\ held["B"] = 0 /\ held["A"] = 1
    /\ InstanceGet("p1", "x") = 0

\* The values the bounds of x (StoreBounds, not None) admit.
InStoreBounds(v) == v # None /\ v >= StoreBounds[1] /\ v <= StoreBounds[2]

SetStep == Running /\ Top.op = "set"

C2_Act ==
    SetStep =>
        IF InStoreBounds(Top.val)
        THEN raised' = "none" /\ \A o \in {Top.obj} : Get(o, "x")' = Top.val
        ELSE raised' = "ValueError" /\ UNCHANGED <<ivalues, cparams>>

(* C2: a set of a value that fails validation raises and leaves the stored
   values unchanged; a set of a valid value, also right after a failed
   one, stores that value and raises nothing. *)
C2_InvalidSetKeepsValue == [][C2_Act]_vars

\* A valid set has succeeded right after a failed one.
C2_Witness ==
    /\ Completed /\ last.op = "set" /\ last.after_failure
    /\ raised = "none"
    /\ last.val # last.pre
    /\ Get(last.obj, "x") = last.val

C9_Act ==
    (SetStep /\ IsInstance(Top.obj)) =>
        /\ \A q \in Instances \ {Top.obj} :
              icls[q] # "none" => InstanceGet(q, "x")' = InstanceGet(q, "x")
        /\ \A c \in defined : ClassGet(c, "x")' = ClassGet(c, "x")

(* C9: an instance-level write of x on p leaves the value read for x on
   every class and on every other instance as it was. *)
C9_InstanceWriteIsLocal == [][C9_Act]_vars

C9_Witness ==
    /\ Completed /\ last.op = "set" /\ last.obj = "p1" /\ raised = "none"
    /\ last.val # last.pre
    /\ InstanceGet("p1", "x") = last.val
    /\ icls["p2"] # "none" /\ InstanceGet("p2", "x") = last.pre
    /\ ClassGet("D", "x") = last.pre

\* Class c is where the lookup of x from class k ends: c is in k's MRO and
\* no class before it there holds a Parameter x of its own.
LookupEndsAt(k, c) ==
    \E i \in 1..Len(MRO[k]) :
        /\ MRO[k][i] = c
        /\ \A j \in 1..(i - 1) : "x" \notin DOMAIN cparams[MRO[k][j]]

ClassWriteStep == SetStep /\ ~IsInstance(Top.obj) /\ InStoreBounds(Top.val)

C10_PropagatesAct ==
    ClassWriteStep =>
        /\ \A k \in defined :
              LookupEndsAt(k, Top.obj) => ClassGet(k, "x")' = Top.val
        /\ \A p \in Instances :
              (icls[p] # "none" /\ "x" \notin DOMAIN ivalues[p]
                  /\ LookupEndsAt(icls[p], Top.obj))
              => InstanceGet(p, "x")' = Top.val

BeginsOf(id) == SelectSeq(log, LAMBDA e : e.k = "begin" /\ e.w = id)

C10_WatchersTriggered ==
    (Completed /\ last.op = "set" /\ ~IsInstance(last.obj) /\ raised = "none"
        /\ last.val # last.pre)
    => \A i \in 1..Len(watchers) :
          watchers[i].obj = last.obj =>
              BeginsOf(watchers[i].id)
                  = <<[k |-> "begin", w |-> watchers[i].id,
                       evs |-> <<Event(last.obj, "x", last.pre, last.val)>>]>>

(* C10 (as amended): a class-level write of x on class C becomes the value
   read on C, on every class whose lookup of x ends at C, and on every
   instance of those classes without a value of its own; when the value
   changes, each class-level watcher of x on C is invoked once with it. *)
C10_ClassWritePropagates == [](C10_WatchersTriggered) /\ [][C10_PropagatesAct]_vars

\* A write on A reached D and its instance p1, and A's watcher ran.
C10_Witness ==
    /\ Completed /\ last.op = "set" /\ last.obj = "A" /\ raised = "none"
    /\ last.val # last.pre
    /\ ClassGet("D", "x") = last.val
    /\ icls["p1"] = "D" /\ InstanceGet("p1", "x") = last.val
    /\ Len(watchers) = 1 /\ watchers[1].obj = "A"
    /\ Len(BeginsOf(1)) = 1

\* k is C or a subclass of C, and neither k nor any class between k and C
\* (a subclass of C that k derives from) holds a Parameter x of its own.
NotOverriddenBelow(k, c) ==
    /\ c \in Range(MRO[k])
    /\ \A m \in Range(MRO[k]) :
          (m # c /\ c \in Range(MRO[m])) => "x" \notin DOMAIN cparams[m]

C10_OriginalAct ==
    ClassWriteStep =>
        \A k \in defined :
            NotOverriddenBelow(k, Top.obj) => ClassGet(k, "x")' = Top.val

(* C10 (as stated): the written value is read on every subclass of C that
   has not overridden x (itself or through a class between it and C). *)
C10_Original == [][C10_OriginalAct]_vars

(***************************************************************************)
(* Properties of the dispatcher (SpecDispatch, SpecBatch).                 *)
(***************************************************************************)
\* A top-level set made outside any batch scope has returned normally.
TopSetDone == Completed /\ last.op = "set" /\ raised = "none" /\ scopes = <<>>

OneBegin(w, ev) == <<[k |-> "begin", w |-> w.id, evs |-> <<ev>>]>>

(* C3: after a set of y outside a batch, a watcher of y registered with
   onlychanged=True has been invoked zero times if the value set is the
   value y already had, and otherwise exactly once, with one Event whose
   old field is the value before the set and whose new field is the value
   y has after it. *)
C3_OnlyChangedFiring ==
    TopSetDone =>
        \A i \in 1..Len(watchers) :
            LET w == watchers[i]
            IN  (w.obj = last.obj /\ w.name = last.name /\ w.onlychanged) =>
                    IF last.val = last.pre
                    THEN BeginsOf(w.id) = <<>>
                    ELSE /\ BeginsOf(w.id)
                              = OneBegin(w, Event(last.obj, last.name, last.pre, last.val))
                         /\ Get(last.obj, last.name) = last.val

\* An onlychanged watcher of a ran once for a set that changed a.
C3_Witness ==
    /\ TopSetDone /\ last.name = "a" /\ last.val # last.pre
    /\ Len(watchers) >= 1
    /\ watchers[1].name = "a" /\ watchers[1].onlychanged /\ watchers[1].fn = "log"
    /\ BeginsOf(1) = OneBegin(watchers[1], Event("p1", "a", last.pre, last.val))

\* The outermost batch scope has been left and its dispatch has returned.
BatchDone == Completed /\ last.op = "batch" /\ scopes = <<>>

BatchFinal == last.sets[Len(last.sets)][2]

C4_AtClose ==
    (BatchDone /\ last.sets # <<>>) =>
        \A i \in 1..Len(watchers) :
            LET w == watchers[i]
            IN  (w.obj = last.obj /\ w.name = "a" /\ ~w.queued
                    /\ (~w.onlychanged \/ BatchFinal # last.before["a"]))
                => BeginsOf(w.id)
                     = OneBegin(w, Event(last.obj, "a", last.before["a"], BatchFinal))

C4_NothingBeforeClose == scopes # <<>> => log = <<>>

(* C4: no watcher is invoked while a batch scope is open; when the scope
   closes after sets of a whose final value differs from the value a had
   before the batch (or for a watcher with onlychanged=False), every
   non-queued watcher of a has been invoked exactly once, with a single
   Event whose old field is the value a had before the batch opened and
   whose new field is the final value. *)
C4_BatchCoalesced == C4_AtClose /\ C4_NothingBeforeClose

\* Three sets of a to three different values, none of them the value
\* before the batch, and the first watcher (non-queued) ran once.
C4_Witness ==
    /\ BatchDone /\ Len(last.sets) = 3
    /\ Cardinality({last.sets[1][2], last.sets[2][2], last.sets[3][2],
                    last.before["a"]}) = 4
    /\ Len(watchers) >= 1 /\ ~watchers[1].queued /\ watchers[1].onlychanged
    /\ BeginsOf(1) = OneBegin(watchers[1],
                              Event("p1", "a", last.before["a"], last.sets[3][2]))

IsBegin(i, id) == log[i].k = "begin" /\ log[i].w = id

IsEnd(i, id) == log[i].k = "end" /\ log[i].w = id

\* At position i of the log the callback of watcher id is in progress.
InCallback(i, id) ==
    \E j \in 1..(i - 1) :
        IsBegin(j, id) /\ \A k \in (j + 1)..(i - 1) : ~IsEnd(k, id)

\* W1: a non-queued watcher of a whose callback sets b.
IsW1(w) == w.name = "a" /\ ~w.queued /\ w.fn = "set_b"

\* W2: a queued watcher of b.
IsW2(w) == w.name = "b" /\ w.queued

Setters == {w \in Range(watchers) : w.fn = "set_b"}

\* A set of a, outside a batch, that changed a.
SetOfA == TopSetDone /\ last.name = "a" /\ last.val # last.pre

\* W2 is never invoked before a watcher whose callback sets b.
W1BeforeW2(w2) ==
    \A i \in 1..Len(log) :
        IsBegin(i, w2.id) =>
            \E j \in 1..(i - 1) : \E s \in Setters : IsBegin(j, s.id)

\* W2 is invoked while W1's callback is still in progress.
W2InsideW1(w1, w2) ==
    \E i \in 1..Len(log) : IsBegin(i, w2.id) /\ InCallback(i, w1.id)

(* C5 (as amended): given a non-queued watcher W1 of a whose callback sets
   b and a queued watcher W2 of b, a set of a invokes W1 before W2, and W2
   is invoked depth-first, while W1's callback is still in progress, as soon
   as that callback sets b (to a new value, or when W2 is not onlychanged):
   W2's queued flag defers only the Events raised inside W2's own callback. *)
C5_QueuedOrdering ==
    SetOfA =>
        \A w1 \in Range(watchers), w2 \in Range(watchers) :
            (IsW1(w1) /\ IsW2(w2)) =>
                /\ W1BeforeW2(w2)
                /\ (~w2.onlychanged
                      \/ (Setters = {w1} /\ last.before["b"] # last.val))
                   => W2InsideW1(w1, w2)

\* W1 and W2 alone: W2 began and ended inside W1's callback.
C5_Witness ==
    /\ SetOfA
    /\ Len(watchers) = 2
    /\ \E i \in 1..2 : IsW1(watchers[i]) /\ IsW2(watchers[3 - i])
                       /\ log = <<LogEntry("begin", watchers[i], log[1].evs),
                                  LogEntry("begin", watchers[3 - i], log[2].evs),
                                  LogEntry("end", watchers[3 - i], <<>>),
                                  LogEntry("end", watchers[i], <<>>)>>

(* C5 (as stated): a set of a invokes W1 before W2, and W2's callback starts
   only when no non-queued watcher's callback caused by that set is still
   in progress. *)
C5_Original ==
    SetOfA =>
        \A w1 \in Range(watchers), w2 \in Range(watchers) :
            (IsW1(w1) /\ IsW2(w2)) =>
                /\ W1BeforeW2(w2)
                /\ \A i \in 1..Len(log) :
                      IsBegin(i, w2.id) =>
                          \A w \in Range(watchers) :
                              ~w.queued => ~InCallback(i, w.id)

(***************************************************************************)
(* Properties of mutable defaults (SpecAlias).                             *)
(***************************************************************************)
\* The content of the container read for m on object o.
Content(o) == heap[Get(o, "m")]

\* The step changes in place the container read from p and leaves what is
\* read from every other instance, and from every class, as it was.
MutationIsLocal(p) ==
    Mutate(p) =>
        /\ \A q \in Instances \ {p} : icls[q] # "none" => Content(q)' = Content(q)
        /\ \A c \in defined : Content(c)' = Content(c)

C8_Act ==
    \A p \in Instances :
        (icls[p] # "none" /\ HasParam(icls[p], "m")
            /\ ParamOf(icls[p], "m").instantiate = 1)
        => MutationIsLocal(p)

(* C8 (as amended): for a parameter with a mutable default declared with
   instantiate=True, changing in place the value read from an instance p1
   that has not been given a value changes neither the value read from
   another instance p2 nor any class-level default. *)
C8_NoAliasing == [][C8_Act]_vars

\* p1 and p2 were created from a class with instantiate=True, the list read
\* from p1 was changed, and p2 and the class still read an empty list.
C8_Witness ==
    /\ icls["p1"] = "A" /\ icls["p2"] = "A"
    /\ ParamOf("A", "m").instantiate = 1
    /\ Content("p1") = 1 /\ Content("p2") = 0 /\ Content("A") = 0

C8_OriginalAct ==
    \A p \in Instances : (icls[p] # "none" /\ HasParam(icls[p], "m")) => MutationIsLocal(p)

(* C8 (as stated): changing in place the value read from p1 never changes
   the value read from p2 nor the class-level default, whatever the
   parameter's declaration. *)
C8_Original == [][C8_OriginalAct]_vars

(***************************************************************************)
(* Properties of discard_events (SpecDiscard).                             *)
(***************************************************************************)
\* No callback has been invoked since the discard scope was opened.
C11_NoCallbackInScope == scopes # <<>> => log = <<>>

\* Once the scope has been left nothing it accumulated is still pending.
C11_NothingPendingAfter ==
    (scopes = <<>> /\ (~Running \/ Completed)) =>
        \A o \in Objs : pstate[o].events = <<>> /\ pstate[o].watchers = <<>>

\* A set step made inside the scope validates and stores as outside it.
C11_SetAct ==
    (SetStep /\ scopes # <<>>) =>
        IF Validate(ParamOf(ClassOf(Top.obj), Top.name), Top.val)
        THEN raised' = raised
             /\ \A o \in {Top.obj} : \A n \in {Top.name} : Get(o, n)' = Top.val
        ELSE raised' = "ValueError" /\ UNCHANGED <<ivalues, cparams>>

(* C11: inside a discard_events scope on an object a set still validates
   (an invalid value raises and stores nothing) and a valid value is
   stored, but no watcher callback is invoked while the scope is open, and
   when the scope has been left no Event of the scope is pending, so none
   is delivered later. *)
C11_DiscardEvents ==
    /\ [](C11_NoCallbackInScope /\ C11_NothingPendingAfter)
    /\ [][C11_SetAct]_vars

\* The scope has been left after a set that changed a, with a watcher of a
\* registered that is not onlychanged, and nothing ran.
C11_Witness ==
    /\ Completed /\ last.op = "discard" /\ scopes = <<>>
    /\ \E i \in 1..Len(last.sets) :
          last.sets[i][1] = "a" /\ last.sets[i][2] \notin {None, last.before["a"]}
    /\ Get("p1", "a") # last.before["a"]
    /\ \E i \in 1..Len(watchers) : watchers[i].name = "a" /\ ~watchers[i].onlychanged
    /\ log = <<>>
    /\ pstate["p1"].events = <<>>

(***************************************************************************)
(* Properties of trigger (SpecTrigger).                                    *)
(***************************************************************************)
TriggerDone == Completed /\ last.op = "trigger" /\ raised = "none"

(* C12: after obj.param.trigger(y), every watcher of y, onlychanged or not,
   has been invoked exactly once with an Event whose old and new fields are
   both the value y had, and y still has that value. *)
C12_TriggerFiresAll ==
    TriggerDone =>
        /\ Get(last.obj, last.name) = last.before[last.name]
        /\ \A i \in 1..Len(watchers) :
              LET w == watchers[i]
                  v == last.before[last.name]
              IN  (w.obj = last.obj /\ w.name = last.name) =>
                      BeginsOf(w.id) = OneBegin(w, Event(last.obj, last.name, v, v))

\* b was triggered with an onlychanged watcher of b registered, which ran.
C12_Witness ==
    /\ TriggerDone /\ last.name = "b"
    /\ Len(watchers) >= 1 /\ watchers[1].name = "b" /\ watchers[1].onlychanged
    /\ Len(BeginsOf(1)) = 1
    /\ Get("p1", "b") = last.before["b"]

(***************************************************************************)
(* Properties of dependencies on a sub-object (SpecDepends).               *)
(***************************************************************************)
\* The objects on which a watcher invoking the dependent method is registered.
DepTargets == {watchers[i].obj : i \in {j \in 1..Len(watchers) : watchers[j].fn = "cb"}}

\* The object Owner.n holds.
Sub == InstanceAt[Get(Owner, "n")]

\* The dependent method was invoked for an Event of a on object o.
InvokedFor(o) ==
    \E i \in 1..Len(log) :
        log[i].k = "begin" /\ log[i].evs[1].obj = o /\ log[i].evs[1].name = "a"

\* Between operations the dependency is bound to the object n holds and to
\* no other.
C13_Bound ==
    ((~Running \/ Completed) /\ icls[Owner] # "none") => DepTargets = {Sub}

\* A change of a on a sub-object invokes the method iff n holds that object.
C13_Invoked ==
    (TopSetDone /\ icls[Owner] # "none" /\ last.obj \in SubObjects
        /\ last.name = "a" /\ last.val # last.pre)
    => (InvokedFor(last.obj) <=> last.obj = Sub)

(* C13: once Owner.n has been given another object, the method depending on
   'n.a' is invoked by a change of a on the object n holds now and not by a
   change of a on the object n held before. *)
C13_Rebinds == C13_Bound /\ C13_Invoked

\* n was reassigned from p2 (the class default) to p3; a was then set on p3,
\* which the method mirrored into b, and now a has changed on p2 without
\* the method being invoked.
C13_Witness ==
    /\ TopSetDone /\ icls[Owner] # "none"
    /\ Sub = "p3" /\ ClassGet("C", "n") = 2
    /\ last.obj = "p2" /\ last.name = "a" /\ last.val # last.pre
    /\ Get("p3", "a") = 1 /\ Get(Owner, "b") = 1 /\ Get("p2", "a") = 2
    /\ log = <<>>

(***************************************************************************)
(* Properties of unwatch (SpecUnwatch).                                    *)
(***************************************************************************)
\* Within the log, no callback begins after its watcher was unregistered.
C14_NoBeginAfterUnwatch ==
    \A i \in 1..Len(log) : \A j \in (i + 1)..Len(log) :
        ~(log[i].k = "unwatch" /\ log[j].k = "begin" /\ log[j].w = log[i].w)

\* A callback that begins belongs to a watcher that is registered.
C14_BeginAct ==
    (Len(log') = Len(log) + 1 /\ log'[Len(log')].k = "begin")
    => \E i \in 1..Len(watchers) : watchers[i].id = log'[Len(log')].w

(* C14: the callback of a watcher is not invoked once the watcher has been
   unregistered, whether by the program between operations or by another
   callback while the Event was still on its way to the watcher. *)
C14_NoDispatchToRemoved == []C14_NoBeginAfterUnwatch /\ [][C14_BeginAct]_vars

\* A set of a outside a batch invoked the unregistering callback first,
\* which removed a victim that was still waiting for the same Event; the
\* set has returned and the victim was not invoked.
C14_Witness ==
    /\ TopSetDone /\ last.name = "a" /\ last.val # last.pre
    /\ Len(log) = 3
    /\ log[1].k = "begin" /\ log[2].k = "unwatch" /\ log[3].k = "end"
    /\ log[2].w # log[1].w
    /\ Len(watchers) = 1 /\ watchers[1].fn = "unwatch"

(***************************************************************************)
(* Properties of callbacks that raise (SpecRaise).                         *)
(***************************************************************************)
\* A callback has raised during the operation.
HasRaised == \E i \in 1..Len(log) : log[i].k = "raise"

\* After a set outside a batch, each watcher of the parameter that the set
\* concerns has been invoked exactly once, and the others not at all.
C15_SetCycle ==
    (Completed /\ last.op = "set" /\ scopes = <<>>) =>
        \A i \in 1..Len(watchers) :
            LET w == watchers[i]
            IN  BeginsOf(w.id) =
                    IF w.name = last.name /\ (~w.onlychanged \/ last.val # last.pre)
                    THEN OneBegin(w, Event(last.obj, last.name, last.pre, last.val))
                    ELSE <<>>

\* After a batch with sets of a, each watcher of a that the sets concern
\* has been invoked exactly once.
C15_BatchCycle ==
    (BatchDone /\ last.sets # <<>>) =>
        \A i \in 1..Len(watchers) :
            LET w == watchers[i]
            IN  (w.name = "a" /\ ~w.onlychanged) => Len(BeginsOf(w.id)) = 1

\* The operation ends with the exception iff a callback raised, and the
\* object's batch state is as before the operation.
C15_Surfaced ==
    (Completed /\ scopes = <<>>) =>
        /\ (raised = "CallbackError") <=> HasRaised
        /\ ~pstate["p1"].BATCH_WATCH
        /\ pstate["p1"].events = <<>>

(* C15: when a callback raises, the watchers still to be invoked for the
   same set or batch, queued ones included, are invoked all the same, and
   the operation ends with the exception after they have run. *)
C15_RaiseIsolated == C15_SetCycle /\ C15_BatchCycle /\ C15_Surfaced

\* The first watcher raised; the second, later in precedence, was invoked
\* after that, and the set ended with the exception.
C15_Witness ==
    /\ Completed /\ last.op = "set" /\ scopes = <<>>
    /\ raised = "CallbackError"
    /\ Len(watchers) = 2
    /\ watchers[1].fn = "raise" /\ watchers[2].fn = "log"
    /\ Len(log) = 5
    /\ log[2].k = "raise" /\ log[2].w = watchers[1].id
    /\ log[4].k = "begin" /\ log[4].w = watchers[2].id

(***************************************************************************)
(* Properties of constant and readonly parameters (SpecConstant).          *)
(***************************************************************************)
\* An edit_constant scope on o is open.
EditOpen(o) == \E i \in 1..Len(scopes) : scopes[i].kind = "edit" /\ scopes[i].obj = o

SetAccepted ==
    raised' # "TypeError" /\ \A o \in {Top.obj} : \A n \in {Top.name} : Get(o, n)' = Top.val

SetRejected == raised' = "TypeError" /\ UNCHANGED <<ivalues, cparams>>

C16_Act ==
    (SetStep /\ IsInstance(Top.obj)) =>
        IF Top.name \in ReadonlyNames THEN SetRejected
        ELSE IF Top.name \in ConstantNames
        THEN IF ~pstate[Top.obj].initialized \/ EditOpen(Top.obj)
             THEN SetAccepted ELSE SetRejected
        ELSE SetAccepted

(* C16: a set of a readonly parameter is rejected at all times; a set of a
   constant parameter on an instance is accepted iff the instance is not
   yet initialized or an edit_constant scope on that instance is open, and
   is otherwise rejected with the value left as it was. *)
C16_ConstantReadonly == [][C16_Act]_vars

\* p1 is initialized, an edit_constant scope on it was opened and closed
\* again, k got the value 1 when that was allowed, and now a set of k to 0
\* has been rejected.
C16_Witness ==
    /\ Completed /\ last.op = "set" /\ scopes = <<>>
    /\ last.obj = "p1" /\ last.name = "k" /\ last.val = 0
    /\ raised = "TypeError"
    /\ pstate["p1"].initialized
    /\ "k" \in DOMAIN pstate["p1"].params
    /\ Get("p1", "k") = 1

(***************************************************************************)
(* Properties of the validation of defaults at class creation              *)
(* (SpecInherit).                                                          *)
(***************************************************************************)
\* Every Parameter of a class that exists has a default it allows.
C18_DefaultsValid ==
    \A c \in defined : \A n \in DOMAIN cparams[c] :
        Validate(cparams[c][n], cparams[c][n].default)

\* A class statement that raises over a default creates no class.
C18_Act == (failed' # {}) => UNCHANGED <<defined, declared, cparams>>

(* C18: when a redeclaration in a subclass gives a Parameter whose
   inherited default its own constraints do not allow, the class statement
   raises: the class is not created, and no class that exists has such a
   Parameter. *)
C18_InvalidDefaultIsFatal == []C18_DefaultsValid /\ [][C18_Act]_vars

\* B(A) redeclared x with bounds only; the default 0 inherited from A is
\* outside them, the statement raised and B does not exist.
C18_Witness ==
    /\ "A" \in defined /\ "B" \notin defined
    /\ HasParam("A", "x") /\ ParamOf("A", "x").default = 0
    /\ [cls |-> "B", name |-> "x", inherited |-> TRUE] \in failed

\* The statement as a warning: the class over whose inherited default the
\* validation failed is created all the same.
C18_OriginalAct ==
    \A c \in Classes :
        (\E r \in failed' : r.cls = c /\ r.inherited) => c \in defined'

C18_Original == [][C18_OriginalAct]_vars

(***************************************************************************)
(* Properties of operations made during initialization (SpecUnsafe).       *)
(***************************************************************************)
\* RuntimeError is raised only by watch, trigger or objects(instance=True)
\* on an instance being initialized, and then nothing is changed.
C17_RaiseAct ==
    (raised' = "RuntimeError") =>
        /\ last'.op \in UnsafeOps
        /\ \A o \in {last'.obj} : IsInstance(o) /\ ~pstate[o].initialized
        /\ UNCHANGED <<watchers, pstate, ivalues, cparams>>

\* On an instance being initialized no watcher is registered, no Parameter
\* object is made for the instance and no trigger starts.
C17_NoEffectAct ==
    \A p \in Instances :
        (icls[p] # "none" /\ ~pstate[p].initialized) =>
            /\ \A i \in 1..Len(watchers') :
                  watchers'[i].obj = p => \E j \in 1..Len(watchers) : watchers[j] = watchers'[i]
            /\ pstate'[p].params = pstate[p].params
            /\ ~pstate'[p].TRIGGER

\* A failed validation raises ValueError, not RuntimeError.
C17_ValidationAct == (raised' = "ValueError") => SetStep

\* One of the three operations has returned: it raised iff the instance
\* was being initialized.
C17_Returned ==
    (Completed /\ last.op \in UnsafeOps) =>
        (raised = "RuntimeError" <=> ~pstate[last.obj].initialized)

(* C17: on an instance whose initialization is not over, param.watch,
   param.trigger and param.objects(instance=True) each raise RuntimeError
   (a failed validation raises ValueError) and change nothing; once the
   initialization is over they are carried out.  Forcing a new dynamic
   value is not one of these operations. *)
C17_UnsafeDuringInit ==
    /\ []C17_Returned
    /\ [][C17_RaiseAct /\ C17_NoEffectAct /\ C17_ValidationAct]_vars

\* watch was refused on p1, which is being initialized, while p2, which is
\* initialized, has a watcher.
C17_Witness ==
    /\ Completed /\ raised = "RuntimeError"
    /\ last.op = "watch" /\ last.obj = "p1"
    /\ ~pstate["p1"].initialized
    /\ Len(watchers) = 1 /\ watchers[1].obj = "p2"

\* The statement in which forcing a new dynamic value is among the
\* operations refused during initialization.
C17_Original ==
    (Completed /\ last.op = "force" /\ ~pstate[last.obj].initialized)
        => raised = "RuntimeError"

(***************************************************************************)
(* Properties of references (SpecRefs).                                    *)
(***************************************************************************)
\* Reading t gives the current value of the reference t holds, if any.
RefResolved ==
    \A n \in DOMAIN pstate[RefObj].refs :
        Get(RefObj, n) = ResolveRef(pstate[RefObj].refs[n])

\* Between operations.
C19_AtRest == (~Running \/ Completed) => RefResolved

\* When the callback of a watcher of the program begins.
C19_CallbackAct ==
    (Running /\ Top.op = "execute" /\ Top.w.fn = "log" /\ log' # log) => RefResolved

(* C19: a parameter declared with allow_refs=True that has been given a
   reference reads as the reference's current value: right after it was
   given the reference and after every later change of what the reference
   depends on, both between operations and in the callbacks of the
   program's watchers. *)
C19_ReferenceFollows == []C19_AtRest /\ [][C19_CallbackAct]_vars

\* y.t holds a function bound to x.a; x.a has just been set to 2, a value
\* it did not have, and y.t reads 3.
C19_Witness ==
    /\ Completed /\ last.op = "set" /\ last.obj = "p1" /\ last.name = "a"
    /\ last.val = 2 /\ last.pre # 2
    /\ "t" \in DOMAIN pstate[RefObj].refs
    /\ pstate[RefObj].refs["t"].kind = "bind"
    /\ Get(RefObj, "t") = 3

(***************************************************************************)
(* Properties of asynchronous watchers (SpecAsync).                        *)
(***************************************************************************)
SchedulesOf(id) == SelectSeq(log, LAMBDA e : e.k = "schedule" /\ e.w = id)

EndsOf(id) == SelectSeq(log, LAMBDA e : e.k = "end" /\ e.w = id)

\* The number of invocations of w that the set just made calls for.
Due(w) ==
    IF w.name = last.name /\ (~w.onlychanged \/ last.val # last.pre) THEN 1 ELSE 0

Pending(co) == \E i \in 1..Len(scheduled) : scheduled[i] = co

\* When a set outside a batch returns, each synchronous watcher of its Event
\* has begun and ended once; each asynchronous one has not begun, its call
\* was handed over once and is still waiting to be run.
C20_AtReturn ==
    (Completed /\ last.op = "set" /\ scopes = <<>>) =>
        \A i \in 1..Len(watchers) :
            LET w == watchers[i]
                ev == Event(last.obj, last.name, last.pre, last.val)
            IN  IF IsAsync(w)
                THEN /\ BeginsOf(w.id) = <<>>
                     /\ Len(SchedulesOf(w.id)) = Due(w)
                     /\ Due(w) = 1 => Pending(Coroutine(w, <<ev>>))
                ELSE /\ Len(BeginsOf(w.id)) = Due(w)
                     /\ Len(EndsOf(w.id)) = Due(w)
                     /\ SchedulesOf(w.id) = <<>>

\* The executor receives one coroutine per invocation of an asynchronous
\* watcher and nothing else; a coroutine leaves it only between two
\* operations of the user program, never while one is in progress.
C20_HandOffAct ==
    IF Running /\ Top.op = "execute" /\ Registered(Top.w) /\ IsAsync(Top.w)
    THEN scheduled' = Append(scheduled, Coroutine(Top.w, Top.evs))
    ELSE IF Running
    THEN scheduled' = scheduled
    ELSE \/ scheduled' = scheduled
         \/ \E i \in 1..Len(scheduled) : scheduled' = Without(scheduled, i)

(* C20: for one event, every synchronous watcher has finished before the
   triggering set returns, while the call of each asynchronous watcher is
   handed to the async executor exactly once and is not run before the set
   returns. *)
C20_AsyncScheduled == [](C20_AtReturn) /\ [][C20_HandOffAct]_vars

\* A set of a with one synchronous and one asynchronous watcher has
\* returned: the first has ended, the call of the second is scheduled and
\* what it is to store in b is not there yet.
C20_Witness ==
    /\ Completed /\ last.op = "set" /\ scopes = <<>> /\ raised = "none"
    /\ Len(watchers) = 2
    /\ ~IsAsync(watchers[1]) /\ IsAsync(watchers[2])
    /\ Len(EndsOf(watchers[1].id)) = 1
    /\ Len(SchedulesOf(watchers[2].id)) = 1
    /\ Pending(Coroutine(watchers[2],
                         <<Event(last.obj, last.name, last.pre, last.val)>>))
    /\ Get("p1", "b") # last.val

(***************************************************************************)
(* Properties of the order of invocation (SpecDispatch).                   *)
(***************************************************************************)
WatcherById(id) == CHOOSE w \in Range(watchers) : w.id = id

\* Two invocations for the same Event: the watcher with the lower
\* precedence began first.
InPrecedenceOrder(i, j) ==
    LET wi == WatcherById(log[i].w)
        wj == WatcherById(log[j].w)
    IN  (/\ log[i].k = "begin" /\ log[j].k = "begin"
         /\ log[i].evs = log[j].evs
         /\ wi.obj = wj.obj /\ wi.name = wj.name
         /\ wi.precedence < wj.precedence)
        => i < j

(* C24: when one Event matches several watchers, the watcher with the
   lower precedence value is invoked before the one with the higher value,
   whatever the order in which they were registered. *)
C24_PrecedenceOrder ==
    TopSetDone => \A i \in 1..Len(log), j \in 1..Len(log) : InPrecedenceOrder(i, j)

\* The watcher registered second has the lower precedence and was invoked
\* first for the set of a.
C24_Witness ==
    /\ TopSetDone /\ last.name = "a"
    /\ Len(watchers) = 2
    /\ watchers[1].name = "a" /\ watchers[2].name = "a"
    /\ watchers[2].precedence < watchers[1].precedence
    /\ Len(log) >= 3
    /\ IsBegin(1, watchers[2].id)
    /\ \E i \in 2..Len(log) : IsBegin(i, watchers[1].id)

(***************************************************************************)
(* Properties of queued watchers (SpecQueued).                             *)
(***************************************************************************)
\* W: a queued watcher of a whose callback sets b.
IsQueuedSetter(w) == w.name = "a" /\ w.queued /\ w.fn = "set_b"

\* The callback of watcher id has ended before position i.
CompletedBefore(i, id) == \E j \in 1..(i - 1) : IsEnd(j, id)

\* Of the watchers whose callback sets b, a queued one comes first in
\* precedence: the change of b, if any, is made inside its callback.
FirstSetterQueued ==
    \E w \in Setters :
        /\ w.queued
        /\ \A s \in Setters : s.queued \/ w.precedence < s.precedence

\* A set of a to a value that b did not have: the queued setter changes b.
QueuedSetOfB == SetOfA /\ FirstSetterQueued /\ last.before["b"] # last.val

\* At position i a watcher of b begins with the Event of that change.
BeginsForChange(i) ==
    /\ log[i].k = "begin"
    /\ WatcherById(log[i].w).name = "b"
    /\ log[i].evs[1].old # log[i].evs[1].new

\* The watchers of b are not invoked while the queued callback that
\* changed b is executing.
C23_NotDuring ==
    QueuedSetOfB =>
        \A i \in 1..Len(log) :
            BeginsForChange(i) =>
                \A w \in Range(watchers) : IsQueuedSetter(w) => ~InCallback(i, w.id)

\* The watchers of b are invoked after every watcher of a has completed.
C23_AfterAll ==
    QueuedSetOfB =>
        \A i \in 1..Len(log) :
            BeginsForChange(i) =>
                \A w \in Range(watchers) : w.name = "a" => CompletedBefore(i, w.id)

\* The watchers of a, other than queued setters, only report.
OthersOnlyReport ==
    \A w \in Range(watchers) : (w.name = "a" /\ ~IsQueuedSetter(w)) => w.fn = "log"

\* When the other watchers of a only report, the watchers of b are
\* invoked after every watcher of a has completed.
C23_AfterAllReporting ==
    (QueuedSetOfB /\ OthersOnlyReport) =>
        \A i \in 1..Len(log) :
            BeginsForChange(i) =>
                \A w \in Range(watchers) : w.name = "a" => CompletedBefore(i, w.id)

(* C23 (as stated): if a queued watcher W of a sets b in its callback, the
   watchers of b are not invoked while that callback executes, and are
   invoked only after every watcher that the set of a triggered (W and the
   other watchers of a) has completed. *)
C23_Original == C23_NotDuring /\ C23_AfterAll

\* The queued setter has run first and changed b; the next watcher of a,
\* whose callback sets b itself, is still executing when the watcher of b
\* is invoked with the change.
C23_Witness ==
    /\ QueuedSetOfB
    /\ \E i \in 1..Len(log) :
          /\ BeginsForChange(i)
          /\ \E w \in Range(watchers) :
                w.name = "a" /\ ~w.queued /\ w.fn = "set_b" /\ InCallback(i, w.id)
          /\ \E w \in Range(watchers) : IsQueuedSetter(w) /\ CompletedBefore(i, w.id)

(***************************************************************************)
(* Properties of a set that fails validation (SpecReject).                 *)
(***************************************************************************)
\* The step of a set whose value the bounds of x do not admit: no callback
\* is called, no Event and no watcher is queued, nothing remains to be
\* dispatched, and the set ends with the error.
C28_Act ==
    (SetStep /\ ~InStoreBounds(Top.val)) =>
        /\ raised' = "ValueError"
        /\ stack' = <<[op |-> "done"]>>
        /\ UNCHANGED <<log, pstate, scheduled, ivalues>>

\* When a set outside a batch has ended with a validation error, no
\* callback has been invoked and no Event is pending.
C28_AtReturn ==
    (Completed /\ last.op = "set" /\ scopes = <<>> /\ ~InStoreBounds(last.val)) =>
        /\ raised = "ValueError"
        /\ log = <<>>
        /\ pstate[last.obj].events = <<>>
        /\ pstate[last.obj].watchers = <<>>

\* After a batch, the Events dispatched carry only values that were
\* accepted.
C28_BatchEvents ==
    BatchDone =>
        \A i \in 1..Len(log) :
            log[i].k = "begin" =>
                \A j \in 1..Len(log[i].evs) : InStoreBounds(log[i].evs[j].new)

(* C28: a set that fails validation invokes no watcher and produces no
   Event; only the error shows that it was made. *)
C28_FailedSetIsSilent ==
    [](C28_AtReturn /\ C28_BatchEvents) /\ [][C28_Act]_vars

\* A set of 2 to x (bounds (0, 1)) on p1, which has two watchers of x, one
\* of them not onlychanged, has ended with ValueError and an empty log.
C28_Witness ==
    /\ Completed /\ last.op = "set" /\ scopes = <<>>
    /\ last.val = 2 /\ raised = "ValueError"
    /\ Len(watchers) = 2 /\ ~watchers[1].onlychanged
    /\ log = <<>>
    /\ Get("p1", "x") = last.pre

(***************************************************************************)
(* Properties of the object a watcher belongs to (SpecScope).              *)
(***************************************************************************)
(* C30: a set of a on one object invokes the watchers of a registered on
   that very object, once each when the set concerns them, and no other:
   not those of another instance of the class, and not, for a set on an
   instance, those registered on its class. *)
C30_WatcherScope ==
    TopSetDone =>
        \A i \in 1..Len(watchers) :
            LET w == watchers[i]
            IN  BeginsOf(w.id) =
                    IF w.obj = last.obj /\ (~w.onlychanged \/ last.val # last.pre)
                    THEN OneBegin(w, Event(last.obj, "a", last.pre, last.val))
                    ELSE <<>>

\* The class and p1 each have a watcher of a; a is set on p2 to a new
\* value: neither watcher has been invoked.
C30_Witness ==
    /\ TopSetDone /\ last.obj = "p2" /\ last.val # last.pre
    /\ Len(watchers) = 2
    /\ watchers[1].obj = "A" /\ watchers[2].obj = "p1"
    /\ log = <<>>

(***************************************************************************)
(* Properties of nested batches (SpecNested).                              *)
(***************************************************************************)
\* While a batch scope is open, an inner scope or an update having ended
\* or not, no callback has been invoked.
C29_NothingWhileOpen == scopes # <<>> => log = <<>>

\* The names set inside the batch or update that has just ended.
NamesSet == {last.sets[i][1] : i \in 1..Len(last.sets)}

\* The outermost batch scope, or an update made outside any scope, has ended.
OutermostDone == Completed /\ last.op \in {"batch", "update"} /\ scopes = <<>>

\* When the outermost scope has ended, every watcher of a parameter that
\* was set has been invoked once with the net change (an onlychanged one
\* at most once when there is no net change), and nothing is pending any
\* more.
C29_AtOutermostExit ==
    OutermostDone =>
        /\ ~pstate[last.obj].BATCH_WATCH
        /\ pstate[last.obj].events = <<>>
        /\ pstate[last.obj].watchers = <<>>
        /\ \A i \in 1..Len(watchers) :
              LET w == watchers[i]
                  ev == Event(last.obj, w.name, last.before[w.name], Get(last.obj, w.name))
              IN  IF w.name \in NamesSet /\ (~w.onlychanged \/ Changed(ev))
                  THEN BeginsOf(w.id) = OneBegin(w, ev)
                  ELSE IF w.name \in NamesSet
                  THEN BeginsOf(w.id) \in {<<>>, OneBegin(w, ev)}
                  ELSE BeginsOf(w.id) = <<>>

(* C29: with batch scopes nested on one object, .param.update calls inside
   them included, no watcher is invoked when an inner scope ends; what was
   accumulated is dispatched when the outermost scope ends, and after that
   no Event is pending. *)
C29_NestedBatches == C29_NothingWhileOpen /\ C29_AtOutermostExit

\* Two nested scopes with a set of a in the inner one and an update in the
\* outer one after the inner one ended: the watcher of a ran once, at the
\* end, with the net change.
C29_Witness ==
    /\ OutermostDone /\ last.op = "batch"
    /\ Len(last.sets) = 3
    /\ last.sets[1][1] = "a" /\ last.sets[1][2] # last.before["a"]
    /\ Len(watchers) >= 1 /\ watchers[1].name = "a" /\ watchers[1].onlychanged
    /\ Get("p1", "a") # last.before["a"]
    /\ BeginsOf(watchers[1].id)
         = OneBegin(watchers[1], Event("p1", "a", last.before["a"], Get("p1", "a")))

(***************************************************************************)
(* Properties of scopes whose body raises (SpecCleanup).                   *)
(***************************************************************************)
\* The exception leaving a scope puts the object back in the mode it was
\* in when the scope was entered.
C21_LeaveAct ==
    (Running /\ Top.op = "propagate" /\ scopes # <<>>) =>
        /\ scopes' = Tail(scopes)
        /\ pstate'[Head(scopes).obj].BATCH_WATCH = Head(scopes).saved

\* With no scope open and no operation in progress, Events are not being
\* accumulated and none is pending.
C21_AtRest ==
    (scopes = <<>> /\ (~Running \/ Completed)) =>
        /\ ~pstate["p1"].BATCH_WATCH
        /\ pstate["p1"].events = <<>>
        /\ pstate["p1"].watchers = <<>>

\* A set outside any scope has invoked each watcher that it concerns, and
\* has done so before returning.
C21_LaterSet ==
    TopSetDone =>
        \A i \in 1..Len(watchers) :
            LET w == watchers[i]
            IN  BeginsOf(w.id) =
                    IF w.name = last.name /\ (~w.onlychanged \/ last.val # last.pre)
                    THEN OneBegin(w, Event(last.obj, last.name, last.pre, last.val))
                    ELSE <<>>

(* C21: when the body of a batch scope or of a discard-events scope raises,
   the object is, once the exception has left the scope, in the dispatch
   mode it was in before the scope was entered, so that a later set outside
   any scope is dispatched to its watchers at once. *)
C21_ScopeCleanup == [](C21_AtRest /\ C21_LaterSet) /\ [][C21_LeaveAct]_vars

\* The operation before this set ended with an exception (the body of a
\* scope raised); the set, outside any scope, has invoked the watcher.
C21_Witness ==
    /\ TopSetDone /\ last.after_failure
    /\ last.val # last.pre
    /\ Len(watchers) >= 1 /\ watchers[1].name = last.name
    /\ BeginsOf(watchers[1].id)
         = OneBegin(watchers[1], Event("p1", last.name, last.pre, last.val))

(***************************************************************************)
(* Properties of Event parameters (SpecEvent).                             *)
(***************************************************************************)
\* e is to be put back to False by the operation in progress.
ResetPending == \E i \in 1..Len(stack) : stack[i].op = "reset_event"

\* The operation in progress or just completed: a set of e to True or a
\* trigger of e.
EventOp == last.name = "e" /\ (last.op = "trigger" \/ (last.op = "set" /\ last.val = 1))

\* e reads True only inside a set of e to True or a trigger of e, before
\* that operation has put it back.
C25_TrueOnlyDuring ==
    (Exists("p1") /\ Get("p1", "e") = 1) =>
        /\ Running /\ ~Completed
        /\ EventOp
        /\ ResetPending

\* Whenever a watcher of e is invoked for such an operation, e reads True,
\* and it still does when the callback returns.
C25_ObservedAct ==
    (Running /\ EventOp /\ Top.op \in {"execute", "return"} /\ Top.w.name = "e")
        => Get("p1", "e") = 1

\* When the set to True or the trigger has returned, each watcher of e has
\* been invoked once and e reads False.
C25_AfterAll ==
    (Completed /\ EventOp) =>
        /\ Get("p1", "e") = 0
        /\ \A i \in 1..Len(watchers) :
              watchers[i].name = "e" =>
                  /\ Len(BeginsOf(watchers[i].id)) = 1
                  /\ Len(EndsOf(watchers[i].id)) = 1

(* C25: an Event parameter reads True only while the watchers of one
   trigger or of one set to True are running: each of them finds it True,
   and when they have all completed it reads False again. *)
C25_MomentaryEvent ==
    [](C25_TrueOnlyDuring /\ C25_AfterAll) /\ [][C25_ObservedAct]_vars

\* e was triggered on p1, whose two watchers of e each stored in b what
\* they read on e: b is 1 and e reads 0 again.
C25_Witness ==
    /\ Completed /\ last.op = "trigger" /\ last.name = "e"
    /\ Len(watchers) = 2
    /\ watchers[1].fn = "see" /\ watchers[2].fn = "see"
    /\ last.before["b"] = 0
    /\ Get("p1", "b") = 1
    /\ Get("p1", "e") = 0


(***************************************************************************)
(* Properties of the reassignment of a sub-object (SpecDepends).           *)
(***************************************************************************)
\* The operation that has completed gave Owner.n another object.
Reassigned ==
    /\ TopSetDone /\ icls[Owner] # "none"
    /\ last.obj = Owner /\ last.name = "n" /\ last.val # last.pre

\* a has the same value on the object n held and on the object n holds.
SameResolved == Get(InstanceAt[last.pre], "a") = Get(InstanceAt[last.val], "a")

\* The dependent method began during the operation.
MethodInvoked ==
    \E i \in 1..Len(log) :
        log[i].k = "begin" /\ WatcherById(log[i].w).fn = "cb"

(* C26: when Owner.n is reassigned from one object to another and a has the
   same value on both, the reassignment invokes the method depending on
   'n.a' with no Event: the method does not run and b, which it writes,
   keeps its value. *)
C26_SameValueNoEvent ==
    (Reassigned /\ SameResolved)
    => (~MethodInvoked /\ Get(Owner, "b") = last.before["b"])

\* n went from p2 to p3 while a was 1 on both; the dependency is bound to
\* p3 and the method was not invoked.
C26_Witness ==
    /\ Reassigned /\ SameResolved
    /\ last.pre = 2 /\ last.val = 3
    /\ Get("p2", "a") = 1 /\ Get("p3", "a") = 1
    /\ DepTargets = {"p3"}
    /\ ~MethodInvoked


(***************************************************************************)
(* Properties of dependencies on method names (SpecMethods).               *)
(***************************************************************************)
\* Method d names method m in its depends declaration.
Names(d, m) == m \in DeclOf(d).deps

\* d depends on m through one, two or three method names.
DependsOnMethod(d, m) ==
    \/ Names(d, m)
    \/ \E x \in MethodNames : Names(d, x) /\ Names(x, m)
    \/ \E x, y \in MethodNames : Names(d, x) /\ Names(x, y) /\ Names(y, m)

\* Parameter n is in the dependency set of m: m names it, or a method on
\* which m depends names it.
InDependencySet(n, m) ==
    \/ n \in DeclOf(m).deps
    \/ \E x \in MethodNames : DependsOnMethod(m, x) /\ n \in DeclOf(x).deps

\* The positions of the log at which method m begins, and at which it ends.
MethodBegins(m) ==
    {i \in 1..Len(log) : log[i].k = "begin" /\ WatcherById(log[i].w).fn = m}

MethodEnds(m) ==
    {i \in 1..Len(log) : log[i].k = "end" /\ WatcherById(log[i].w).fn = m}

\* A set on the instance with the methods changed a parameter.
MethodSetDone ==
    /\ TopSetDone /\ last.obj = "p1" /\ last.val # last.pre
    /\ \E i \in 1..Len(watchers) : watchers[i].fn \in MethodNames

(* C27: when a parameter in the dependency set of method m has changed, each
   method d that depends on m by name, directly or through further method
   names, has been invoked once, and m had returned before d began. *)
C27_AfterNamedMethod ==
    MethodSetDone =>
        \A d, m \in MethodNames :
            (DependsOnMethod(d, m) /\ InDependencySet(last.name, m)) =>
                /\ Cardinality(MethodBegins(d)) = 1
                /\ \A i \in MethodBegins(d) : \E j \in MethodEnds(m) : j < i

\* A set of a ran cb3, cb4 and cb5 in this order, each to its end before
\* the next began, and then a watcher of the program.
C27_Witness ==
    /\ MethodSetDone /\ last.name = "a"
    /\ Len(log) = 8
    /\ \A i \in 1..4 : log[2 * i - 1].k = "begin" /\ log[2 * i].k = "end"
    /\ WatcherById(log[1].w).fn = "cb3"
    /\ WatcherById(log[3].w).fn = "cb4"
    /\ WatcherById(log[5].w).fn = "cb5"
    /\ WatcherById(log[7].w).fn = "log"


(***************************************************************************)
(* Properties of mutually updating watchers (SpecMutual).                  *)
(***************************************************************************)
\* The watcher of a and the watcher of b, once both are registered.
MutualReady == Len(watchers) = 2

\* What the callback named fn stores for the value v it is given.
Converted(fn, v) ==
    IF fn \in {"flip_a", "flip_b"} THEN Flip(v)
    ELSE IF fn = "clamp_b" THEN Clamp(v)
    ELSE v

\* The two callbacks undo each other.
InversePair == watchers[1].fn # "clamp_b"

\* Every invocation so far was for a value that changed.
C22_EqualFiresNothing ==
    \A i \in 1..Len(log) :
        log[i].k = "begin" => log[i].evs[1].old # log[i].evs[1].new

\* No callback runs more than twice for one set, and the set stays within
\* the call depth.
C22_Bounded ==
    /\ Len(stack) <= MaxStack
    /\ \A i \in 1..Len(watchers) : Len(BeginsOf(watchers[i].id)) <= 2

\* When a set that changed a has returned, b is what the callback of the
\* watcher of a makes of a, and a is what the callback of the watcher of b
\* makes of b if the two callbacks undo each other or b has changed.
C22_Consistent ==
    (MutualReady /\ SetOfA) =>
        /\ Get("p1", "b") = Converted(watchers[1].fn, Get("p1", "a"))
        /\ (InversePair \/ Get("p1", "b") # last.before["b"])
           => Get("p1", "a") = Converted(watchers[2].fn, Get("p1", "b"))

C22_Safe == C22_EqualFiresNothing /\ C22_Bounded /\ C22_Consistent

(* C22: with an onlychanged watcher of a that sets b and an onlychanged
   watcher of b that sets a, every set returns: no callback is invoked for a
   set that stores the value already there, no callback runs more than
   twice, and when a set of a has returned a and b are consistent. *)
C22_MutualTerminates == []C22_Safe /\ (Running ~> ~Running)

\* a was set to 3 while b was 0: the watcher of a stored 1 in b, the
\* watcher of b stored 1 in a, the watcher of a ran again and stored 1 in b,
\* which fired nothing; the set has returned with a = b = 1.
C22_Witness ==
    /\ MutualReady /\ SetOfA
    /\ watchers[1].fn = "clamp_b" /\ ~watchers[1].queued /\ ~watchers[2].queued
    /\ last.val = 3 /\ last.before["b"] = 0
    /\ Len(BeginsOf(watchers[1].id)) = 2 /\ Len(BeginsOf(watchers[2].id)) = 1
    /\ Get("p1", "a") = 1 /\ Get("p1", "b") = 1

====
